---- MODULE Spec2Model ----
(***************************************************************************)
(* A model of sgrep's chunked index: the VectorStore (core/store.rs) with  *)
(* its optional VectorIndex (core/vector_index.rs), the line-packing       *)
(* chunker (core/chunker.rs), the two indexing paths FastIndexer::index    *)
(* (core/fast_indexer.rs) and sync_files (commands/watch.rs), and the      *)
(* rerank block of the search command (commands/search.rs with             *)
(* core/reranker.rs).                                                      *)
(*                                                                         *)
(* Representation choices:                                                 *)
(*  - a HashMap is a function whose DOMAIN is its key set;                 *)
(*  - a text is the sequence of its lines; a line is a record of its byte  *)
(*    length and of its whitespace-separated tokens, a token a sequence of *)
(*    characters;                                                          *)
(*  - SHA-256 is collision free: a file hash is the content itself and a   *)
(*    chunk id the triple that is hashed;                                  *)
(*  - an embedding Vec<f32> is the record of its length, the model that    *)
(*    produced it and the text it was produced for;                        *)
(*  - an f32 score is an integer number of hundredths.                     *)
(***************************************************************************)
EXTENDS Integers, Sequences, FiniteSets, TLC

VARIABLES
    mem,      \* SpecStore: a VectorStore object in memory
    lastOp,   \* SpecStore: the last VectorStore method called on mem
    dir,      \* Spec: the indexed directory, path -> file content
    disk,     \* Spec: the persisted store (<name>.store.bin), VectorStoreData
    last,     \* Spec: what the last command did (its inputs and its report)
    clock,    \* Spec: chrono::Utc::now(), advanced by every run
    rr,       \* SpecRerank: input and output of the search command's rerank block
    config_dir, \* SpecFiles: the store files of the config directory, name -> blob
    vidx,     \* SpecIndex: a VectorIndex object in memory
    inserted, \* SpecSearch: the chunk ids of mem in the order of their insertion
    procs     \* SpecTwo, SpecDaemon, SpecLazy: the threads and what they share

vars == <<mem, lastOp, dir, disk, last, clock, rr, config_dir, vidx, inserted, procs>>

\* the variables only SpecFiles, SpecIndex and SpecSearch use
others == <<config_dir, vidx, inserted, procs>>

None == "None"

(***************************** bounds **************************************)
MaxRuns == 2        \* index/sync runs in one behaviour
MaxFailed == 1      \* embedding calls that fail in one run

(*************************** maps and sequences ****************************)
EmptyMap == [x \in {} |-> None]

MapPut(m, k, v) == [x \in (DOMAIN m) \cup {k} |-> IF x = k THEN v ELSE m[x]]

MapDel(m, ks) == [x \in (DOMAIN m) \ ks |-> m[x]]

Range(s) == {s[i] : i \in DOMAIN s}

RECURSIVE SumSeq(_)
SumSeq(s) == IF s = <<>> THEN 0 ELSE Head(s) + SumSeq(Tail(s))

RECURSIVE FlatSeq(_)
FlatSeq(ss) == IF ss = <<>> THEN <<>> ELSE Head(ss) \o FlatSeq(Tail(ss))

Min2(a, b) == IF a <= b THEN a ELSE b

\* usize::saturating_sub
saturating_sub(a, b) == IF a >= b THEN a - b ELSE 0

(******************************* texts *************************************)
\* str::to_lowercase on the characters the model uses
LowerChar(c) ==
    CASE c = "F" -> "f" [] c = "B" -> "b" [] c = "T" -> "t"
      [] c = "X" -> "x" [] c = "R" -> "r" [] c = "S" -> "s"
      [] OTHER -> c

to_lowercase(w) == [i \in DOMAIN w |-> LowerChar(w[i])]

wFoo == <<"F", "o", "o">>
wfoo == <<"f", "o", "o">>
wbar == <<"b", "a", "r">>
wfoobar == <<"f", "o", "o", "b", "a", "r">>

\* A line of `len` bytes holding the tokens `toks` (padded with blanks).
LShort == [len |-> 60, toks |-> <<wFoo>>]
LLong == [len |-> 1500, toks |-> <<wbar>>]
LBoth == [len |-> 60, toks |-> <<wfoobar, wFoo>>]

\* str::len of lines joined by "\n"
JoinLen(ls) == IF ls = <<>> THEN 0
               ELSE SumSeq([i \in DOMAIN ls |-> ls[i].len]) + (Len(ls) - 1)

\* the whitespace-separated tokens of a text, in order
Tokens(ls) == FlatSeq([i \in DOMAIN ls |-> ls[i].toks])

\* lines[a..b) with 0-based indices, as a Rust slice
Slice(ls, a, b) == SubSeq(ls, a + 1, b)

(************************* hashing (store.rs) ******************************)
compute_file_hash(content) == <<"sha256", content>>

generate_chunk_id(file_path, start_line, end_line) ==
    <<file_path, start_line, end_line>>

(************************* chunker (chunker.rs) ****************************)
max_chunk_size == 1500
min_chunk_size == 100

Chunk(ls, a, b, s, e) ==
    [content |-> Slice(ls, a, b), start_line |-> s, end_line |-> e,
     chunk_type |-> "code"]

\* The lines of the model match none of the language patterns, so
\* find_semantic_block is None at every line and the loop only advances.
RECURSIVE semantic_chunk_loop(_, _, _)
semantic_chunk_loop(lines, i, chunks) ==
    IF i >= Len(lines) THEN chunks
    ELSE semantic_chunk_loop(lines, i + 1, chunks)

semantic_chunk(lines) == semantic_chunk_loop(lines, 0, <<>>)

\* the for loop of simple_chunk; i, current_start are 0-based as in the code
RECURSIVE simple_chunk_loop(_, _, _, _, _)
simple_chunk_loop(lines, i, current_start, current_size, chunks) ==
    IF i >= Len(lines) THEN [current_start |-> current_start, chunks |-> chunks]
    ELSE LET size == current_size + lines[i + 1].len + 1 IN
         IF size >= max_chunk_size
         THEN simple_chunk_loop(lines, i + 1, saturating_sub(i, 2), 0,
                  Append(chunks, Chunk(lines, current_start, i + 1,
                                       current_start + 1, i + 1)))
         ELSE simple_chunk_loop(lines, i + 1, current_start, size, chunks)

simple_chunk(lines) ==
    LET r == simple_chunk_loop(lines, 0, 0, 0, <<>>)
        rest == Slice(lines, r.current_start, Len(lines))
    IN IF r.current_start < Len(lines)
          /\ (JoinLen(rest) >= min_chunk_size \/ r.chunks = <<>>)
       THEN Append(r.chunks, Chunk(lines, r.current_start, Len(lines),
                                   r.current_start + 1, Len(lines)))
       ELSE r.chunks

\* CodeChunker::chunk; content.lines() is the text itself
chunk(content) ==
    IF content = <<>> THEN <<>>
    ELSE IF semantic_chunk(content) # <<>> THEN semantic_chunk(content)
    ELSE simple_chunk(content)

(********************* embeddings (local_embeddings.rs) ********************)
\* An embedding is a record: dim is the length of the f32 vector, vec its
\* leading coordinates (the others are 0), model and text say which model
\* produced it from which text (None and <<>> for a vector built by hand).
EmptyEmbedding == [dim |-> 0, model |-> None, text |-> <<>>, vec |-> <<>>]

\* the words a coordinate of the model's vectors stands for
Vocabulary == <<wfoo, wbar, wfoobar>>

\* the vector a model computes for a text: coordinate k says whether the
\* lowercased text holds the k-th word (equal texts give equal vectors)
embed_vec(text) ==
    [k \in DOMAIN Vocabulary |->
        IF \E i \in DOMAIN Tokens(text) : to_lowercase(Tokens(text)[i]) = Vocabulary[k]
        THEN 1 ELSE 0]

\* LocalEmbedder::with_speed_mode: the model and its dimension
ModelOf(speed_mode) ==
    CASE speed_mode = "Fast" -> [id |-> "all-MiniLM-L6-v2", dim |-> 384]
      [] speed_mode = "Balanced" -> [id |-> "bge-base-en-v1.5", dim |-> 768]
      [] speed_mode = "Quality" -> [id |-> "bge-base-en-v1.5", dim |-> 768]
      [] speed_mode = "Code" -> [id |-> "CodeRankEmbed", dim |-> 768]

embed_single(speed_mode, text) ==
    [dim |-> ModelOf(speed_mode).dim, model |-> ModelOf(speed_mode).id,
     text |-> text, vec |-> embed_vec(text)]

\* LocalEmbedder::embed: one vector per text, in order
embed(speed_mode, texts) == [i \in DOMAIN texts |-> embed_single(speed_mode, texts[i])]

(********************* VectorIndex (vector_index.rs) ***********************)
DEFAULT_THRESHOLD == 1000
DEFAULT_DIMENSIONS == 768

NoIndex == [some |-> FALSE, keys |-> {}]

\* VectorIndex::new
VectorIndex_new(dimensions) ==
    [index |-> NoIndex, id_to_chunk |-> EmptyMap, chunk_to_id |-> EmptyMap,
     next_id |-> 0, dimensions |-> dimensions, threshold |-> DEFAULT_THRESHOLD]

with_threshold(vi, threshold) == [vi EXCEPT !.threshold = threshold]

\* VectorIndex::init_index (rebuild_index, called after it, is a no-op)
init_index(vi) == [vi EXCEPT !.index = [some |-> TRUE, keys |-> {}]]

\* VectorIndex::add -> Result<()>; the usearch calls are taken to succeed
VectorIndex_add(vi, chunk_id, embedding) ==
    IF embedding.dim # vi.dimensions THEN [ok |-> FALSE, vi |-> vi]
    ELSE LET v1 == IF ~vi.index.some
                      /\ Cardinality(DOMAIN vi.id_to_chunk) >= vi.threshold
                   THEN init_index(vi) ELSE vi
             key == v1.next_id
             v2 == [v1 EXCEPT !.next_id = key + 1,
                              !.id_to_chunk = MapPut(v1.id_to_chunk, key, chunk_id),
                              !.chunk_to_id = MapPut(v1.chunk_to_id, chunk_id, key)]
         IN [ok |-> TRUE,
             vi |-> IF v2.index.some
                    THEN [v2 EXCEPT !.index.keys = v2.index.keys \cup {key}]
                    ELSE v2]

\* VectorIndex::is_indexed
is_indexed(vi) == vi.index.some

\* VectorIndex::remove -> Result<bool>
VectorIndex_remove(vi, chunk_id) ==
    IF chunk_id \in DOMAIN vi.chunk_to_id
    THEN LET key == vi.chunk_to_id[chunk_id]
             v1 == [vi EXCEPT !.chunk_to_id = MapDel(vi.chunk_to_id, {chunk_id}),
                              !.id_to_chunk = MapDel(vi.id_to_chunk, {key})]
         IN [removed |-> TRUE,
             vi |-> IF v1.index.some
                    THEN [v1 EXCEPT !.index.keys = v1.index.keys \ {key}]
                    ELSE v1]
    ELSE [removed |-> FALSE, vi |-> vi]

\* VectorIndex::clear
VectorIndex_clear(vi) ==
    [vi EXCEPT !.index = NoIndex, !.id_to_chunk = EmptyMap,
               !.chunk_to_id = EmptyMap, !.next_id = 0]

\* the keys usearch may return for a query: up to `limit` distinct keys of
\* the index, in any order (the search is approximate)
usearch_search(index, limit) ==
    UNION {{h \in [1..n -> index.keys] : \A i, j \in 1..n : h[i] = h[j] => i = j} :
              n \in 0..Min2(limit, Cardinality(index.keys))}

\* VectorIndex::search, given the keys `hits` usearch returns: the chunk ids
\* of the keys that id_to_chunk knows, in order
VectorIndex_search(vi, hits) ==
    IF DOMAIN vi.id_to_chunk = {} THEN <<>>
    ELSE IF vi.index.some
    THEN LET known == SelectSeq(hits, LAMBDA key : key \in DOMAIN vi.id_to_chunk)
         IN [i \in DOMAIN known |-> vi.id_to_chunk[known[i]]]
    ELSE <<>>

\* VectorIndex::len
VectorIndex_len(vi) == Cardinality(DOMAIN vi.id_to_chunk)

(************************ VectorStore (store.rs) ***************************)
ann_threshold == 1000

NoAnn == [some |-> FALSE]
SomeAnn(vi) == [some |-> TRUE, vi |-> vi]

\* VectorStore::default
VectorStore_default ==
    [files |-> EmptyMap, chunks |-> EmptyMap, bm25_idf |-> EmptyMap,
     doc_count |-> 0, ann_index |-> NoAnn]

\* VectorStore::to_data: what save() writes to <name>.store.bin
to_data(store) ==
    [files |-> store.files, chunks |-> store.chunks,
     bm25_idf |-> store.bm25_idf, doc_count |-> store.doc_count]

\* VectorStore::from_data
from_data(data) ==
    [files |-> data.files, chunks |-> data.chunks, bm25_idf |-> data.bm25_idf,
     doc_count |-> data.doc_count, ann_index |-> NoAnn]

\* the orders in which a HashMap with key set S may be iterated
Orders(S) == {o \in [1..Cardinality(S) -> S] : Range(o) = S}

\* the for loop of build_ann_index over chunks.values() in the order `order`,
\* positions lo..hi; the range is folded by halves (first half, then second)
\* so that a store of ann_threshold chunks is folded at a small depth
RECURSIVE build_ann_loop(_, _, _, _, _)
build_ann_loop(store, order, lo, hi, r) ==
    IF lo > hi \/ ~r.ok THEN r
    ELSE IF lo = hi
    THEN LET c == store.chunks[order[lo]] IN
         IF c.embedding.dim # 0 THEN VectorIndex_add(r.vi, c.id, c.embedding)
         ELSE r
    ELSE LET mid == (lo + hi) \div 2 IN
         build_ann_loop(store, order, mid + 1, hi,
                        build_ann_loop(store, order, lo, mid, r))

\* VectorStore::build_ann_index -> Result<()>, the map iterated in `order`
build_ann_index(store, order) ==
    LET dim == IF order = <<>> THEN DEFAULT_DIMENSIONS
               ELSE store.chunks[order[1]].embedding.dim
        r == build_ann_loop(store, order, 1, Len(order),
                 [ok |-> TRUE, vi |-> with_threshold(VectorIndex_new(dim), 0)])
    IN IF r.ok THEN [ok |-> TRUE, store |-> [store EXCEPT !.ann_index = SomeAnn(r.vi)]]
       ELSE [ok |-> FALSE, store |-> store]

\* VectorStore::maybe_build_ann_index -> Result<()>
maybe_build_ann_index(store, order) ==
    IF Cardinality(DOMAIN store.chunks) >= ann_threshold /\ ~store.ann_index.some
    THEN build_ann_index(store, order)
    ELSE [ok |-> TRUE, store |-> store]

\* VectorStore::has_ann_index
has_ann_index(store) == store.ann_index.some /\ is_indexed(store.ann_index.vi)

\* VectorStore::ann_search, given the keys `hits` usearch returns
ann_search(store, hits) ==
    IF store.ann_index.some /\ is_indexed(store.ann_index.vi)
    THEN [some |-> TRUE, candidates |-> VectorIndex_search(store.ann_index.vi, hits)]
    ELSE [some |-> FALSE, candidates |-> <<>>]

\* VectorStore::clear (the knowledge graph is not modelled)
clear(store) ==
    [store EXCEPT !.files = EmptyMap, !.chunks = EmptyMap,
                  !.bm25_idf = EmptyMap, !.doc_count = 0]

\* VectorStore::add_file
add_file(store, file) ==
    [store EXCEPT !.files = MapPut(store.files, file.path, file)]

\* VectorStore::add_chunk
add_chunk(store, c) ==
    [store EXCEPT !.chunks = MapPut(store.chunks, c.id, c)]

\* a remove_file that drops the file record and leaves its chunks behind
remove_file_keeps_chunks(store, path) ==
    IF path \in DOMAIN store.files
    THEN [store EXCEPT !.files = MapDel(store.files, {path})]
    ELSE store

\* VectorStore::remove_file
remove_file(store, path) ==
    IF path \in DOMAIN store.files
    THEN [store EXCEPT !.files = MapDel(store.files, {path}),
                       !.chunks = MapDel(store.chunks,
                                         Range(store.files[path].chunks))]
    ELSE store

\* VectorStore::file_needs_update
file_needs_update(store, path, new_hash) ==
    IF path \in DOMAIN store.files THEN store.files[path].hash # new_hash
    ELSE TRUE

\* the distinct lowercased whitespace-separated terms of a chunk's content
Terms(content) == {to_lowercase(t) : t \in Range(Tokens(content))}

\* ln((N - df + 0.5) / (df + 0.5) + 1), kept as the fraction under the ln
idf(total_docs, doc_freq) ==
    [num |-> 2 * (total_docs - doc_freq) + 1, den |-> 2 * doc_freq + 1]

\* an update_bm25_stats that never drops a term it has once recorded
update_bm25_stats_keeps_terms(store) ==
    LET total_docs == Cardinality(DOMAIN store.chunks)
        all_terms == UNION {Terms(store.chunks[k].content) : k \in DOMAIN store.chunks}
        doc_freq(t) == Cardinality({k \in DOMAIN store.chunks :
                                       t \in Terms(store.chunks[k].content)})
    IN [store EXCEPT
           !.bm25_idf = [t \in all_terms \cup DOMAIN store.bm25_idf |->
                            IF t \in all_terms THEN idf(total_docs, doc_freq(t))
                            ELSE store.bm25_idf[t]],
           !.doc_count = total_docs]

\* an update_bm25_stats that recomputes the term table and forgets doc_count
update_bm25_stats_stale_count(store) ==
    LET total_docs == Cardinality(DOMAIN store.chunks)
        all_terms == UNION {Terms(store.chunks[k].content) : k \in DOMAIN store.chunks}
        doc_freq(t) == Cardinality({k \in DOMAIN store.chunks :
                                       t \in Terms(store.chunks[k].content)})
    IN [store EXCEPT !.bm25_idf = [t \in all_terms |-> idf(total_docs, doc_freq(t))]]

\* VectorStore::update_bm25_stats
update_bm25_stats(store) ==
    LET total_docs == Cardinality(DOMAIN store.chunks)
        all_terms == UNION {Terms(store.chunks[k].content) : k \in DOMAIN store.chunks}
        doc_freq(t) == Cardinality({k \in DOMAIN store.chunks :
                                       t \in Terms(store.chunks[k].content)})
    IN [store EXCEPT !.bm25_idf = [t \in all_terms |-> idf(total_docs, doc_freq(t))],
                     !.doc_count = total_docs]

(************************* scanner (scanner.rs) *****************************)
Paths == {"a.txt", "b.txt"}

\* the order in which the directory walk yields the files
WalkOrder == <<"a.txt", "b.txt">>

scanner_max_len == 1000000

\* the file contents the model writes: an empty file, one short line, and
\* one line of max_chunk_size bytes
FileContents == {<<>>, <<LShort>>, <<LLong>>}

RECURSIVE scan_loop(_, _)
scan_loop(d, i) ==
    IF i > Len(WalkOrder) THEN <<>>
    ELSE LET p == WalkOrder[i] IN
         IF p \in DOMAIN d /\ ~(JoinLen(d[p]) > scanner_max_len)
         THEN <<[path |-> p, content |-> d[p]]>> \o scan_loop(d, i + 1)
         ELSE scan_loop(d, i + 1)

\* FileScanner::scan: ScannedFile{path, content} of every accepted file
scan(d) == scan_loop(d, 1)

(********************* FastIndexer (fast_indexer.rs) ***********************)
max_file_size == 1048576

FileChunk(file_path, c, embedding) ==
    [id |-> generate_chunk_id(file_path, c.start_line, c.end_line),
     file_path |-> file_path, content |-> c.content,
     start_line |-> c.start_line, end_line |-> c.end_line,
     chunk_type |-> c.chunk_type, embedding |-> embedding]

IndexedFile(path, hash, chunk_ids, now) ==
    [path |-> path, hash |-> hash, chunks |-> chunk_ids, indexed_at |-> now]

\* Phase 3 of index: ProcessedFile{file, hash, chunks} of the selected files
process(files) ==
    LET sized == SelectSeq(files, LAMBDA f : JoinLen(f.content) <= max_file_size)
        pfs == [i \in DOMAIN sized |->
                   [path |-> sized[i].path,
                    hash |-> compute_file_hash(sized[i].content),
                    chunks |-> chunk(sized[i].content)]]
    IN SelectSeq(pfs, LAMBDA pf : pf.chunks # <<>>)

\* the chunk loop of one file: add_chunk for each chunk, in order
RECURSIVE add_chunks(_, _, _, _)
add_chunks(store, path, chunks, embeddings) ==
    IF chunks = <<>> THEN store
    ELSE add_chunks(add_chunk(store, FileChunk(path, Head(chunks), Head(embeddings))),
                    path, Tail(chunks), Tail(embeddings))

ChunkIds(path, chunks) ==
    [i \in DOMAIN chunks |->
        generate_chunk_id(path, chunks[i].start_line, chunks[i].end_line)]

\* a swap that inserts the new chunks before it removes the old file
replace_file_adds_first(store, path, hash, chunks, embeddings, now) ==
    LET s1 == add_chunks(store, path, chunks, embeddings)
        s2 == remove_file(s1, path)
    IN add_file(s2, IndexedFile(path, hash, ChunkIds(path, chunks), now))

\* one iteration of the file loop of store_chunks_bm25_only (and the tail of
\* sync_files' loop body): remove_file, add_chunk per chunk, add_file
replace_file(store, path, hash, chunks, embeddings, now) ==
    LET s1 == remove_file(store, path)
        s2 == add_chunks(s1, path, chunks, embeddings)
    IN add_file(s2, IndexedFile(path, hash, ChunkIds(path, chunks), now))

\* FastIndexer::store_chunks_bm25_only
RECURSIVE store_chunks_bm25_only(_, _, _)
store_chunks_bm25_only(store, processed_files, now) ==
    IF processed_files = <<>> THEN store
    ELSE LET pf == Head(processed_files) IN
         store_chunks_bm25_only(
             replace_file(store, pf.path, pf.hash, pf.chunks,
                          [i \in DOMAIN pf.chunks |-> EmptyEmbedding], now),
             Tail(processed_files), now)

\* the tier's speed mode in store_chunks_with_embeddings
TierSpeedMode(tier) ==
    CASE tier = "Fast" -> "Fast"
      [] tier = "Balanced" -> "Balanced"
      [] tier = "Quality" -> "Quality"

\* all_chunks: (file_path, hash, chunk) of every chunk of every file, in order
AllChunks(processed_files) ==
    FlatSeq([i \in DOMAIN processed_files |->
        [j \in DOMAIN processed_files[i].chunks |->
            [file_path |-> processed_files[i].path,
             hash |-> processed_files[i].hash,
             chunk |-> processed_files[i].chunks[j]]]])

\* the batch loop: embeddings of the batch starting at batch_start (0-based)
\* and of the batches after it; the batches numbered in `failed` return Err
RECURSIVE embed_batches(_, _, _, _, _)
embed_batches(all_chunks, batch_size, speed_mode, failed, batch_start) ==
    IF batch_start >= Len(all_chunks) THEN <<>>
    ELSE LET batch_end == Min2(batch_start + batch_size, Len(all_chunks))
             batch_texts == [i \in 1..(batch_end - batch_start) |->
                                all_chunks[batch_start + i].chunk.content]
             embeddings ==
                 IF (batch_start \div batch_size) \in failed
                 THEN [i \in DOMAIN batch_texts |-> EmptyEmbedding]
                 ELSE embed(speed_mode, batch_texts)
         IN embeddings \o embed_batches(all_chunks, batch_size, speed_mode, failed,
                                        batch_start + batch_size)

RECURSIVE remove_files(_, _)
remove_files(store, paths) ==
    IF paths = <<>> THEN store
    ELSE remove_files(remove_file(store, Head(paths)), Tail(paths))

RECURSIVE add_all_chunks(_, _, _, _)
add_all_chunks(store, all_chunks, all_embeddings, idx) ==
    IF idx >= Len(all_chunks) THEN store
    ELSE LET embedding == IF idx < Len(all_embeddings)
                          THEN all_embeddings[idx + 1] ELSE EmptyEmbedding
             c == all_chunks[idx + 1]
         IN add_all_chunks(add_chunk(store, FileChunk(c.file_path, c.chunk, embedding)),
                           all_chunks, all_embeddings, idx + 1)

RECURSIVE add_files(_, _, _)
add_files(store, processed_files, now) ==
    IF processed_files = <<>> THEN store
    ELSE LET pf == Head(processed_files) IN
         add_files(add_file(store, IndexedFile(pf.path, pf.hash,
                                               ChunkIds(pf.path, pf.chunks), now)),
                   Tail(processed_files), now)

\* FastIndexer::store_chunks_with_embeddings
store_chunks_with_embeddings(store, processed_files, tier, batch_size, failed, now) ==
    LET all_chunks == AllChunks(processed_files)
        all_embeddings == embed_batches(all_chunks, batch_size,
                                        TierSpeedMode(tier), failed, 0)
        s1 == remove_files(store, [i \in DOMAIN processed_files |->
                                      processed_files[i].path])
        s2 == add_all_chunks(s1, all_chunks, all_embeddings, 0)
    IN IF all_chunks = <<>> THEN store
       ELSE add_files(s2, processed_files, now)

\* one call on the store, as the indexer issues it under the store's lock
StoreCall(op, path, arg) == [op |-> op, path |-> path, arg |-> arg]

add_chunk_calls(path, chunks, embeddings) ==
    [i \in DOMAIN chunks |->
        StoreCall("add_chunk", path, FileChunk(path, chunks[i], embeddings[i]))]

\* the calls store_chunks_bm25_only issues, in program order
bm25_only_calls(processed_files, now) ==
    FlatSeq([i \in DOMAIN processed_files |->
        LET pf == processed_files[i] IN
        <<StoreCall("remove_file", pf.path, None)>>
        \o add_chunk_calls(pf.path, pf.chunks,
                           [j \in DOMAIN pf.chunks |-> EmptyEmbedding])
        \o <<StoreCall("add_file", pf.path,
                IndexedFile(pf.path, pf.hash, ChunkIds(pf.path, pf.chunks), now))>>])

\* the calls the store phase of store_chunks_with_embeddings issues, in
\* program order: all remove_file, then all add_chunk, then all add_file
with_embeddings_calls(processed_files, tier, batch_size, failed, now) ==
    LET all_chunks == AllChunks(processed_files)
        all_embeddings == embed_batches(all_chunks, batch_size,
                                        TierSpeedMode(tier), failed, 0)
    IN IF all_chunks = <<>> THEN <<>>
       ELSE [i \in DOMAIN processed_files |->
                StoreCall("remove_file", processed_files[i].path, None)]
            \o [i \in DOMAIN all_chunks |->
                  StoreCall("add_chunk", all_chunks[i].file_path,
                      FileChunk(all_chunks[i].file_path, all_chunks[i].chunk,
                                all_embeddings[i]))]
            \o [i \in DOMAIN processed_files |->
                  LET pf == processed_files[i] IN
                  StoreCall("add_file", pf.path,
                      IndexedFile(pf.path, pf.hash, ChunkIds(pf.path, pf.chunks), now))]

\* the effect of one call, and of a sequence of calls, on the store
apply_call(store, c) ==
    CASE c.op = "remove_file" -> remove_file(store, c.path)
      [] c.op = "add_chunk" -> add_chunk(store, c.arg)
      [] c.op = "add_file" -> add_file(store, c.arg)

RECURSIVE apply_calls(_, _)
apply_calls(store, calls) ==
    IF calls = <<>> THEN store
    ELSE apply_calls(apply_call(store, Head(calls)), Tail(calls))

\* VectorStore::load of the persisted data (below ann_threshold no index is built)
load(data, order) == maybe_build_ann_index(from_data(data), order)

LoadOrders(data) ==
    IF Cardinality(DOMAIN data.chunks) >= ann_threshold
    THEN Orders(DOMAIN data.chunks) ELSE {<<>>}

IndexResult(total, indexed, skipped, chunks) ==
    [total_files |-> total, indexed_files |-> indexed,
     skipped_files |-> skipped, total_chunks |-> chunks]

\* FastIndexer::index on the loaded store: the store it leaves, whether it
\* saved, and its report
index(store, d, tier, incremental, batch_size, failed, now) ==
    LET all_files == scan(d)
        total_files == Len(all_files)
        files_to_process ==
            IF incremental
            THEN SelectSeq(all_files, LAMBDA f :
                     file_needs_update(store, f.path, compute_file_hash(f.content)))
            ELSE all_files
        skipped_files == total_files - Len(files_to_process)
        processed_files == process(files_to_process)
        stored == IF tier = "Fast"
                  THEN store_chunks_bm25_only(store, processed_files, now)
                  ELSE store_chunks_with_embeddings(store, processed_files, tier,
                                                    batch_size, failed, now)
    IN IF total_files = 0
       THEN [store |-> store, saved |-> FALSE, processed |-> <<>>,
             result |-> IndexResult(0, 0, 0, 0)]
       ELSE IF files_to_process = <<>>
       THEN [store |-> store, saved |-> FALSE, processed |-> <<>>,
             result |-> IndexResult(total_files, 0, skipped_files, 0)]
       ELSE [store |-> update_bm25_stats(stored), saved |-> TRUE,
             processed |-> processed_files,
             result |-> IndexResult(total_files, Len(processed_files), skipped_files,
                                    Len(AllChunks(processed_files)))]

(************************ sync_files (watch.rs) ****************************)
\* the for loop of sync_files; embedding the files in `failed` returns Err
RECURSIVE sync_loop(_, _, _, _, _, _)
sync_loop(acc, files, speed_mode, failed, now, i) ==
    IF i > Len(files) THEN acc
    ELSE LET file == files[i]
             hash == compute_file_hash(file.content)
             removed == remove_file(acc.store, file.path)
             chunks == chunk(file.content)
             chunk_embeddings ==
                 embed(speed_mode, [j \in DOMAIN chunks |-> chunks[j].content])
             added == add_file(add_chunks(removed, file.path, chunks, chunk_embeddings),
                               IndexedFile(file.path, hash,
                                           ChunkIds(file.path, chunks), now))
         IN IF ~file_needs_update(acc.store, file.path, hash)
            THEN sync_loop([acc EXCEPT !.skipped_count = @ + 1],
                           files, speed_mode, failed, now, i + 1)
            ELSE IF chunks = <<>>
            THEN sync_loop([acc EXCEPT !.store = removed],
                           files, speed_mode, failed, now, i + 1)
            ELSE IF file.path \in failed
            THEN sync_loop([acc EXCEPT !.store = removed],
                           files, speed_mode, failed, now, i + 1)
            ELSE sync_loop([acc EXCEPT !.store = added, !.indexed_count = @ + 1],
                           files, speed_mode, failed, now, i + 1)

\* sync_files on the loaded store
sync_files(store, d, speed_mode, failed, now) ==
    LET files == scan(d)
        r == sync_loop([store |-> store, indexed_count |-> 0, skipped_count |-> 0],
                       files, speed_mode, failed, now, 1)
    IN IF files = <<>>
       THEN [store |-> store, saved |-> FALSE, indexed_count |-> 0, skipped_count |-> 0]
       ELSE [store |-> update_bm25_stats(r.store), saved |-> TRUE,
             indexed_count |-> r.indexed_count, skipped_count |-> r.skipped_count]

(*************************** Spec: index runs ******************************)
Tiers == {"Fast", "Balanced", "Quality"}
SyncModes == {"Fast", "Balanced"}
BatchSizes == {1, 2}

NoRerank == [op |-> "none"]

StoreIdle == mem = VectorStore_default /\ lastOp = "new"

\* no store file in the config directory, a new VectorIndex
OthersIdle ==
    /\ config_dir = EmptyMap
    /\ vidx = VectorIndex_new(DEFAULT_DIMENSIONS)
    /\ inserted = <<>>
    /\ procs = <<>>

Init ==
    /\ dir = EmptyMap
    /\ disk = to_data(VectorStore_default)
    /\ last = [op |-> "none"]
    /\ clock = 0
    /\ StoreIdle
    /\ rr = NoRerank
    /\ OthersIdle

\* the user writes (creates or modifies) a file of the directory
WriteFile(p, c) ==
    /\ IF p \in DOMAIN dir THEN dir[p] # c ELSE TRUE
    /\ dir' = MapPut(dir, p, c)
    /\ last' = [op |-> "edit"]
    /\ UNCHANGED <<mem, lastOp, disk, clock, rr, others>>

\* the user deletes a file of the directory
DeleteFile(p) ==
    /\ p \in DOMAIN dir
    /\ dir' = MapDel(dir, {p})
    /\ last' = [op |-> "edit"]
    /\ UNCHANGED <<mem, lastOp, disk, clock, rr, others>>

\* the batches an index run with these options would embed
BatchNumbers(data, d, tier, incremental, batch_size) ==
    LET r == index(from_data(data), d, "Fast", incremental, batch_size, {}, 0)
        n == Len(AllChunks(r.processed))
    IN IF tier = "Fast" THEN {} ELSE {b \in 0..n : b * batch_size < n}

\* `sgrep index` (commands/index.rs run, Daemon::do_index): FastIndexer::index
\* from load to save
Index(tier, incremental, batch_size, failed) ==
    /\ clock < MaxRuns
    /\ \E order \in LoadOrders(disk) :
          LET ld == load(disk, order)
              r == index(ld.store, dir, tier, incremental, batch_size, failed, clock + 1)
          IN IF ~ld.ok
             THEN /\ disk' = disk
                  /\ last' = [op |-> "load_failed"]
             ELSE /\ disk' = IF r.saved THEN to_data(r.store) ELSE disk
                  /\ last' = [op |-> "index", tier |-> tier,
                              incremental |-> incremental,
                              batch_size |-> batch_size, failed |-> failed,
                              saved |-> r.saved, result |-> r.result,
                              replaced |-> {r.processed[i].path :
                                               i \in DOMAIN r.processed}
                                           \cap DOMAIN disk.files]
    /\ clock' = clock + 1
    /\ UNCHANGED <<mem, lastOp, dir, rr, others>>

\* the files of the directory whose chunks a sync run would embed
SyncEmbedded(data, d) ==
    {p \in DOMAIN d : /\ file_needs_update(from_data(data), p, compute_file_hash(d[p]))
                      /\ chunk(d[p]) # <<>>}

\* `sgrep watch` / `search --sync`: sync_files from load to save
Sync(speed_mode, failed) ==
    /\ clock < MaxRuns
    /\ \E order \in LoadOrders(disk) :
          LET ld == load(disk, order)
              r == sync_files(ld.store, dir, speed_mode, failed, clock + 1)
          IN IF ~ld.ok
             THEN /\ disk' = disk
                  /\ last' = [op |-> "load_failed"]
             ELSE /\ disk' = IF r.saved THEN to_data(r.store) ELSE disk
                  /\ last' = [op |-> "sync", speed_mode |-> speed_mode,
                              failed |-> failed, saved |-> r.saved,
                              indexed_count |-> r.indexed_count,
                              skipped_count |-> r.skipped_count]
    /\ clock' = clock + 1
    /\ UNCHANGED <<mem, lastOp, dir, rr, others>>

\* the sets of at most MaxFailed embedding calls that fail in one run
Failures(calls) == {f \in SUBSET calls : Cardinality(f) <= MaxFailed}

Next ==
    \/ \E p \in Paths, c \in FileContents : WriteFile(p, c)
    \/ \E p \in Paths : DeleteFile(p)
    \/ \E tier \in Tiers, incremental \in BOOLEAN, batch_size \in BatchSizes :
          \E failed \in Failures(BatchNumbers(disk, dir, tier, incremental, batch_size)) :
             Index(tier, incremental, batch_size, failed)
    \/ \E speed_mode \in SyncModes :
          \E failed \in Failures(SyncEmbedded(disk, dir)) : Sync(speed_mode, failed)

Spec == Init /\ [][Next]_vars

(********************** SpecStore: the VectorStore API **********************)
IndexIdle ==
    /\ dir = EmptyMap
    /\ disk = to_data(VectorStore_default)
    /\ last = [op |-> "none"]
    /\ clock = 0

\* the embeddings a caller hands to add_chunk for a text
StoreEmbeddings(text) ==
    {EmptyEmbedding, embed_single("Fast", text), embed_single("Balanced", text)}

\* the FileChunk values handed to add_chunk: the chunk of a one-line file
StoreChunks ==
    {FileChunk(p, Chunk(<<LShort>>, 0, 1, 1, 1), e) :
        p \in Paths, e \in StoreEmbeddings(<<LShort>>)}

\* the IndexedFile values handed to add_file: ids are generated from the path
StoreFiles ==
    UNION {{IndexedFile(p, compute_file_hash(<<LShort>>), ids, 0) :
               ids \in {<<>>, <<generate_chunk_id(p, 1, 1)>>}} : p \in Paths}

StoreInit ==
    /\ mem = VectorStore_default
    /\ lastOp = "new"
    /\ IndexIdle
    /\ rr = NoRerank
    /\ OthersIdle

StoreFrame == UNCHANGED <<dir, disk, last, clock, rr, others>>

AddFile(file) ==
    /\ mem' = add_file(mem, file)
    /\ lastOp' = "add_file"
    /\ StoreFrame

AddChunk(c) ==
    /\ mem' = add_chunk(mem, c)
    /\ lastOp' = "add_chunk"
    /\ StoreFrame

RemoveFile(path) ==
    /\ mem' = remove_file(mem, path)
    /\ lastOp' = "remove_file"
    /\ StoreFrame

\* the indexers' per-file swap of a one-line file
ReplaceFile(path, embedding) ==
    /\ mem' = replace_file(mem, path, compute_file_hash(<<LShort>>),
                           chunk(<<LShort>>), <<embedding>>, 0)
    /\ lastOp' = "replace_file"
    /\ StoreFrame

Clear ==
    /\ mem' = clear(mem)
    /\ lastOp' = "clear"
    /\ StoreFrame

UpdateBm25Stats ==
    /\ mem' = update_bm25_stats(mem)
    /\ lastOp' = "update_bm25_stats"
    /\ StoreFrame

\* build_ann_index; on Err (dimension mismatch) the store is left as it was
BuildAnnIndex ==
    /\ \E order \in Orders(DOMAIN mem.chunks) :
          mem' = build_ann_index(mem, order).store
    /\ lastOp' = "build_ann_index"
    /\ StoreFrame

MaybeBuildAnnIndex ==
    /\ \E order \in Orders(DOMAIN mem.chunks) :
          mem' = maybe_build_ann_index(mem, order).store
    /\ lastOp' = "maybe_build_ann_index"
    /\ StoreFrame

StoreNext ==
    \/ \E file \in StoreFiles : AddFile(file)
    \/ \E c \in StoreChunks : AddChunk(c)
    \/ \E path \in Paths : RemoveFile(path)
    \/ \E path \in Paths, e \in StoreEmbeddings(<<LShort>>) : ReplaceFile(path, e)
    \/ Clear
    \/ UpdateBm25Stats
    \/ BuildAnnIndex
    \/ MaybeBuildAnnIndex

SpecStore == StoreInit /\ [][StoreNext]_vars

(************************* claims on the store API *************************)
\* no orphan chunks and no dangling ids
OrphanFree(store) ==
    UNION {Range(store.files[p].chunks) : p \in DOMAIN store.files}
        = DOMAIN store.chunks

\* C1 as stated: after any sequence of add_file, add_chunk and remove_file
\* calls the union of the files' chunk-id lists equals the chunk table's keys.
C1_OrphanFreeAfterAnyCall == OrphanFree(mem)

\* C1 amended: remove_file, clear and the indexers' whole per-file swap
\* (remove_file, add_chunk per new chunk, add_file listing those ids) each
\* take an orphan-free store to an orphan-free store.
C1_SwapKeepsOrphanFree ==
    [][(lastOp' \in {"replace_file", "remove_file", "clear"} /\ OrphanFree(mem))
          => OrphanFree(mem')]_vars

\* both files have been swapped in and the store is orphan-free
C1_Witness ==
    /\ lastOp = "replace_file"
    /\ DOMAIN mem.files = Paths
    /\ Cardinality(DOMAIN mem.chunks) = 2
    /\ OrphanFree(mem)

\* the chunk ids the ANN index holds
AnnIds(store) == Range(store.ann_index.vi.id_to_chunk)

EmbeddedIds(store) ==
    {k \in DOMAIN store.chunks : store.chunks[k].embedding.dim # 0}

\* C9: whenever the ANN index is present and populated, it holds exactly the
\* ids of the chunks whose embedding is non-empty, also after add_chunk,
\* remove_file and clear on a store whose index is built.
C9_AnnHoldsEmbeddedChunks ==
    has_ann_index(mem) => AnnIds(mem) = EmbeddedIds(mem)

\* C10 as stated: after add_chunk, remove_file, clear and update_bm25_stats
\* doc_count equals the number of chunks in the chunk table.
C10_DocCountAfterEveryMutation ==
    lastOp \in {"add_chunk", "remove_file", "clear", "update_bm25_stats"}
        => mem.doc_count = Cardinality(DOMAIN mem.chunks)

\* C10 amended: after clear and after update_bm25_stats doc_count equals the
\* number of chunks in the chunk table.
C10_DocCountAfterUpdate ==
    lastOp \in {"clear", "update_bm25_stats"}
        => mem.doc_count = Cardinality(DOMAIN mem.chunks)

\* update_bm25_stats has counted two chunks
C10_Witness == lastOp = "update_bm25_stats" /\ mem.doc_count = 2

(************************* claims on index runs *****************************)
\* the files an index run over directory d selects, given the stored data
Selected(data, d, incremental) ==
    IF incremental
    THEN SelectSeq(scan(d), LAMBDA f :
             file_needs_update(from_data(data), f.path, compute_file_hash(f.content)))
    ELSE scan(d)

\* C2: a second incremental index run over the unchanged corpus leaves the
\* store as the first run left it and reports indexed_files = 0 and
\* skipped_files = total_files.
C2_IncrementalIdempotent ==
    [][(/\ last.op = "index" /\ last.incremental
        /\ last'.op = "index" /\ last'.incremental)
          => /\ disk' = disk
             /\ last'.result.indexed_files = 0
             /\ last'.result.skipped_files = last'.result.total_files]_vars

\* C3: after an index or sync run the store holds no file record and no chunk
\* of a path that is no longer present in the directory.
C3_RemovedFilesLeaveStore ==
    last.op \in {"index", "sync"}
        => /\ DOMAIN disk.files \subseteq DOMAIN dir
           /\ \A k \in DOMAIN disk.chunks : disk.chunks[k].file_path \in DOMAIN dir

\* C4: in a Balanced or Quality run in which the embedding call of one batch
\* fails, exactly the chunks of that batch are stored with empty embeddings,
\* every other chunk with the embedding of its own text, and every selected
\* file is stored and the store persisted.
C4_FailedBatchOnly ==
    [][(/\ last'.op = "index"
        /\ last'.tier \in {"Balanced", "Quality"}
        /\ Cardinality(last'.failed) = 1)
          => LET pfs == process(Selected(disk, dir, last'.incremental))
                 all == AllChunks(pfs)
                 stored(i) == disk'.chunks[generate_chunk_id(all[i].file_path,
                                  all[i].chunk.start_line, all[i].chunk.end_line)]
                 batch(i) == (i - 1) \div last'.batch_size
             IN /\ last'.saved
                /\ \A i \in DOMAIN pfs :
                      /\ pfs[i].path \in DOMAIN disk'.files
                      /\ disk'.files[pfs[i].path].hash = pfs[i].hash
                /\ \A i \in DOMAIN all :
                      stored(i).embedding =
                          IF batch(i) \in last'.failed THEN EmptyEmbedding
                          ELSE embed_single(TierSpeedMode(last'.tier),
                                            all[i].chunk.content)]_vars

\* C5: an embedding error at index time never drops a file: after every
\* index or sync run in which an embedding call failed, each file of the
\* directory that has chunks still has its file record, with the hash of its
\* content, and its chunks.
C5_EmbedErrorKeepsFile ==
    (last.op \in {"index", "sync"} /\ last.saved /\ last.failed # {})
        => \A p \in DOMAIN dir :
              chunk(dir[p]) # <<>>
                  => /\ p \in DOMAIN disk.files
                     /\ disk.files[p].hash = compute_file_hash(dir[p])
                     /\ Range(disk.files[p].chunks) \subseteq DOMAIN disk.chunks

\* C6: after a Fast-tier index (all embeddings empty), a Balanced-tier index
\* of the same unchanged files with force = false leaves every chunk with a
\* non-empty embedding and doc_count equal to the number of chunks.
C6_BalancedAfterFastEmbeds ==
    [][(/\ last.op = "index" /\ last.tier = "Fast"
        /\ \A k \in DOMAIN disk.chunks : disk.chunks[k].embedding.dim = 0
        /\ last'.op = "index" /\ last'.tier = "Balanced"
        /\ last'.incremental /\ last'.failed = {})
          => /\ \A k \in DOMAIN disk'.chunks : disk'.chunks[k].embedding.dim # 0
             /\ disk'.doc_count = Cardinality(DOMAIN disk'.chunks)]_vars

\* C8: after any sequence of index and sync runs on one store all non-empty
\* chunk embeddings of the store have the same dimension.
C8_OneDimension ==
    \A j, k \in DOMAIN disk.chunks :
        (disk.chunks[j].embedding.dim # 0 /\ disk.chunks[k].embedding.dim # 0)
            => disk.chunks[j].embedding.dim = disk.chunks[k].embedding.dim

\* the calls an index run issues on the loaded store
RunCalls(data, d, tier, incremental, batch_size, failed, now) ==
    LET pfs == process(Selected(data, d, incremental))
    IN IF tier = "Fast" THEN bm25_only_calls(pfs, now)
       ELSE with_embeddings_calls(pfs, tier, batch_size, failed, now)

\* C11: in every index run that stores files, the run's calls take the loaded
\* store to the saved one; for every replaced path the one remove_file comes
\* before every add_chunk and add_file of that path; and after the run the
\* chunks of the path in the store are exactly the file's new chunks.
C11_RemoveThenInsert ==
    [][(last'.op = "index" /\ last'.saved)
          => LET pfs == process(Selected(disk, dir, last'.incremental))
                 calls == RunCalls(disk, dir, last'.tier, last'.incremental,
                                   last'.batch_size, last'.failed, clock')
                 of(p, ops) == {i \in DOMAIN calls :
                                   calls[i].path = p /\ calls[i].op \in ops}
             IN /\ disk' = to_data(update_bm25_stats(
                                       apply_calls(from_data(disk), calls)))
                /\ \A n \in DOMAIN pfs :
                      LET p == pfs[n].path
                          new == ChunkIds(p, pfs[n].chunks)
                      IN /\ calls # <<>> => Cardinality(of(p, {"remove_file"})) = 1
                         /\ \A i \in of(p, {"remove_file"}) :
                               \A j \in of(p, {"add_chunk", "add_file"}) : i < j
                         /\ {k \in DOMAIN disk'.chunks :
                                 disk'.chunks[k].file_path = p} = Range(new)
                         /\ \A j \in DOMAIN new :
                               disk'.chunks[new[j]].content = pfs[n].chunks[j].content
                         /\ disk'.files[p].chunks = new]_vars

\* a Balanced or Quality run has replaced a file the store already held
C11_Witness ==
    /\ last.op = "index" /\ last.saved /\ last.tier # "Fast"
    /\ "a.txt" \in last.replaced
    /\ "a.txt" \in DOMAIN disk.files
    /\ disk.files["a.txt"].indexed_at = clock

\* C23: the store file an index or sync run has written holds the term
\* table and the doc_count that update_bm25_stats computes from the chunks of
\* that file: the terms are those of the persisted chunks and no others.
C23_StatsRefreshedAtSave ==
    /\ disk = to_data(update_bm25_stats(from_data(disk)))
    /\ disk.doc_count = Cardinality(DOMAIN disk.chunks)
    /\ DOMAIN disk.bm25_idf
         = UNION {Terms(disk.chunks[k].content) : k \in DOMAIN disk.chunks}

\* an incremental run has replaced the chunks of a.txt, the only file of the
\* store, and the saved term table holds "bar" and no longer "foo"
C23_Witness ==
    /\ last.op = "index" /\ last.saved /\ last.incremental
    /\ "a.txt" \in last.replaced
    /\ DOMAIN disk.files = {"a.txt"}
    /\ DOMAIN disk.bm25_idf = {wbar}


\* C29: in every index run that saves, the chunks of each processed file have
\* pairwise distinct (start_line, end_line) ranges, the chunk ids listed in
\* each file record of the saved store are pairwise distinct, and the reported
\* total_chunks is the number of chunk records of the processed files that the
\* saved store holds.
C29_DistinctChunkRanges ==
    [][(last'.op = "index" /\ last'.saved)
          => LET pfs == process(Selected(disk, dir, last'.incremental))
                 paths == {pfs[i].path : i \in DOMAIN pfs}
             IN /\ \A i \in DOMAIN pfs : \A j, k \in DOMAIN pfs[i].chunks :
                      j # k => <<pfs[i].chunks[j].start_line, pfs[i].chunks[j].end_line>>
                                 # <<pfs[i].chunks[k].start_line, pfs[i].chunks[k].end_line>>
                /\ \A p \in DOMAIN disk'.files :
                      \A j, k \in DOMAIN disk'.files[p].chunks :
                          j # k => disk'.files[p].chunks[j] # disk'.files[p].chunks[k]
                /\ last'.result.total_chunks
                     = Cardinality({c \in DOMAIN disk'.chunks :
                                       disk'.chunks[c].file_path \in paths})]_vars

(******************* SpecRun: an index run step by step *********************)
\* a run that writes the store file as soon as the store phase is done
index_step_saves_early(pc, store, data, d, tier, incremental, batch_size, failed, now) ==
    LET r == index(store, d, tier, incremental, batch_size, failed, now)
    IN CASE pc = "start" ->
              [pc |-> "loaded", store |-> from_data(data), data |-> data]
         [] pc = "loaded" ->
              IF r.saved
              THEN [pc |-> "stored", store |-> r.store, data |-> to_data(r.store)]
              ELSE [pc |-> "returned", store |-> store, data |-> data]
         [] pc = "stored" ->
              [pc |-> "saved", store |-> store, data |-> to_data(store)]

\* FastIndexer::index in three steps: load (line 116); scan, filter, chunk,
\* embed and store into the in-memory store (phases 1-4, with the two early
\* returns); update_bm25_stats and save (phase 5). Each step gives the next
\* position, the in-memory store and the store file.
index_step(pc, store, data, d, tier, incremental, batch_size, failed, now) ==
    LET all_files == scan(d)
        files_to_process ==
            IF incremental
            THEN SelectSeq(all_files, LAMBDA f :
                     file_needs_update(store, f.path, compute_file_hash(f.content)))
            ELSE all_files
        processed_files == process(files_to_process)
        stored == IF tier = "Fast"
                  THEN store_chunks_bm25_only(store, processed_files, now)
                  ELSE store_chunks_with_embeddings(store, processed_files, tier,
                                                    batch_size, failed, now)
    IN CASE pc = "start" ->
              LET ld == load(data, <<>>) IN
              [pc |-> IF ld.ok THEN "loaded" ELSE "failed",
               store |-> ld.store, data |-> data]
         [] pc = "loaded" ->
              IF Len(all_files) = 0 \/ files_to_process = <<>>
              THEN [pc |-> "returned", store |-> store, data |-> data]
              ELSE [pc |-> "stored", store |-> stored, data |-> data]
         [] pc = "stored" ->
              LET s == update_bm25_stats(store) IN
              [pc |-> "saved", store |-> s, data |-> to_data(s)]

\* no run is in progress
RunIdle == lastOp \in {"new", "returned", "saved", "cancelled", "failed"}

RunInit == Init

RunWriteFile(p, c) == RunIdle /\ WriteFile(p, c)

RunDeleteFile(p) == RunIdle /\ DeleteFile(p)

\* `sgrep index` starts: the store file is loaded
RunStart(tier, incremental, batch_size, failed) ==
    /\ RunIdle
    /\ clock < MaxRuns
    /\ Cardinality(DOMAIN disk.chunks) < ann_threshold
    /\ LET r == index_step("start", mem, disk, dir, tier, incremental,
                           batch_size, failed, clock + 1)
       IN /\ lastOp' = r.pc
          /\ mem' = r.store
          /\ disk' = r.data
    /\ last' = [op |-> "run", tier |-> tier, incremental |-> incremental,
                batch_size |-> batch_size, failed |-> failed, before |-> disk]
    /\ clock' = clock + 1
    /\ UNCHANGED <<dir, rr, others>>

\* the run takes its next step
RunStep ==
    /\ lastOp \in {"loaded", "stored"}
    /\ LET r == index_step(lastOp, mem, disk, dir, last.tier, last.incremental,
                           last.batch_size, last.failed, clock)
       IN /\ lastOp' = r.pc
          /\ mem' = r.store
          /\ disk' = r.data
    /\ UNCHANGED <<dir, last, clock, rr, others>>

\* the run is cancelled (Ctrl-C) or fails (an Err or a panic) before its
\* next step: the process ends and its in-memory store is lost
RunStop(how) ==
    /\ lastOp \in {"loaded", "stored"}
    /\ lastOp' = how
    /\ UNCHANGED <<mem, dir, disk, last, clock, rr, others>>

RunNext ==
    \/ \E p \in Paths, c \in FileContents : RunWriteFile(p, c)
    \/ \E p \in Paths : RunDeleteFile(p)
    \/ \E tier \in Tiers, incremental \in BOOLEAN, batch_size \in BatchSizes :
          \E failed \in Failures(BatchNumbers(disk, dir, tier, incremental, batch_size)) :
             RunStart(tier, incremental, batch_size, failed)
    \/ RunStep
    \/ \E how \in {"cancelled", "failed"} : RunStop(how)

SpecRun == RunInit /\ [][RunNext]_vars

\* C12: the store file changes only in the save step of a run, and while a
\* run is between its start and its save, or has stopped there (cancelled,
\* failed, or returned early), the store file is what it was when the run
\* began.
C12_WrittenOnlyAtSavePoint ==
    [][/\ disk' # disk => (lastOp = "stored" /\ lastOp' = "saved")
       /\ lastOp' \in {"loaded", "stored", "returned", "cancelled", "failed"}
             => (last'.op = "run" => disk' = last'.before)]_vars

\* a run was cancelled after its store phase had changed the in-memory store
C12_Witness ==
    /\ lastOp = "cancelled"
    /\ last.op = "run"
    /\ to_data(mem) # disk
    /\ disk = last.before
    /\ DOMAIN disk.chunks # {}

(************ SpecTwo: two index runs on one store name *********************)
\* the two processes: the daemon's re-index (do_index: Balanced, incremental)
\* and a manual `sgrep index`
Runs == {1, 2}

IdleRun == [pc |-> "idle", store |-> VectorStore_default, tier |-> "Fast",
            incremental |-> FALSE, now |-> 0, written |-> EmptyMap]

Running(i) == procs[i].pc \in {"loaded", "stored"}

\* the file records a step has put into the in-memory store
WrittenBy(before, after) ==
    [p \in {q \in DOMAIN after.files :
               IF q \in DOMAIN before.files THEN before.files[q] # after.files[q]
               ELSE TRUE} |-> after.files[p]]

TwoInit ==
    /\ dir = EmptyMap
    /\ disk = to_data(VectorStore_default)
    /\ last = [op |-> "none", overlap |-> FALSE]
    /\ clock = 0
    /\ StoreIdle
    /\ rr = NoRerank
    /\ config_dir = EmptyMap
    /\ vidx = VectorIndex_new(DEFAULT_DIMENSIONS)
    /\ inserted = <<>>
    /\ procs = [i \in Runs |-> IdleRun]

\* the user writes a file while runs may be in progress
TwoWriteFile(p, c) ==
    /\ IF p \in DOMAIN dir THEN dir[p] # c ELSE TRUE
    /\ dir' = MapPut(dir, p, c)
    /\ UNCHANGED <<mem, lastOp, disk, last, clock, rr, others>>

\* run i starts: FastIndexer::index loads the store file
TwoStart(i, tier, incremental) ==
    /\ procs[i].pc = "idle"
    /\ clock < MaxRuns
    /\ LET r == index_step("start", VectorStore_default, disk, dir, tier,
                           incremental, 1, {}, clock + 1)
       IN procs' = [procs EXCEPT ![i] =
                       [pc |-> r.pc, store |-> r.store, tier |-> tier,
                        incremental |-> incremental, now |-> clock + 1,
                        written |-> EmptyMap]]
    /\ last' = [op |-> "start",
                overlap |-> last.overlap \/ \E j \in Runs \ {i} : Running(j)]
    /\ clock' = clock + 1
    /\ UNCHANGED <<mem, lastOp, dir, disk, rr, config_dir, vidx, inserted>>

\* run i takes its next step: phases 1-4 on its own store, or phase 5, the
\* save of its own store to the one store file
TwoStep(i) ==
    /\ Running(i)
    /\ LET r == index_step(procs[i].pc, procs[i].store, disk, dir, procs[i].tier,
                           procs[i].incremental, 1, {}, procs[i].now)
       IN /\ procs' = [procs EXCEPT ![i].pc = r.pc, ![i].store = r.store,
                                    ![i].written =
                                        IF procs[i].pc = "loaded"
                                        THEN WrittenBy(procs[i].store, r.store)
                                        ELSE @]
          /\ disk' = r.data
    /\ last' = [last EXCEPT !.op = "step"]
    /\ UNCHANGED <<mem, lastOp, dir, clock, rr, config_dir, vidx, inserted>>

TwoNext ==
    \/ \E p \in Paths, c \in FileContents : TwoWriteFile(p, c)
    \/ \E i \in Runs, tier \in {"Fast", "Balanced"}, incremental \in BOOLEAN :
          TwoStart(i, tier, incremental)
    \/ \E i \in Runs : TwoStep(i)

SpecTwo == TwoInit /\ [][TwoNext]_vars

\* C24: when two runs on one store name have overlapped and both have
\* finished, the store file holds every file record either run wrote into
\* its store, for the path it wrote it, or the other run's record of that
\* path, and every chunk such a record lists.
C24_BothRunsPersisted ==
    (/\ last.overlap
     /\ \A i \in Runs : procs[i].pc \in {"saved", "returned"})
        => \A i \in Runs : \A p \in DOMAIN procs[i].written :
              /\ p \in DOMAIN disk.files
              /\ \E j \in Runs : /\ p \in DOMAIN procs[j].written
                                 /\ disk.files[p] = procs[j].written[p]
              /\ \A k \in Range(disk.files[p].chunks) : k \in DOMAIN disk.chunks

(*************** SpecFiles: the store files of the config directory *********)
\* the files of a store in the config directory: <name>.store.bin and
\* <name>.store.json
store_path_bin(store_name) == <<store_name, "store.bin">>

store_path(store_name) == <<store_name, "store.json">>

\* a blob is bytes in one format; a corrupt blob parses in neither
bincode_serialize(data) == [format |-> "bincode", data |-> data]

bincode_deserialize(blob) ==
    IF blob.format = "bincode" THEN [ok |-> TRUE, data |-> blob.data]
    ELSE [ok |-> FALSE, data |-> to_data(VectorStore_default)]

serde_json_to_string(data) == [format |-> "json", data |-> data]

serde_json_from_str(blob) ==
    IF blob.format = "json" THEN [ok |-> TRUE, data |-> blob.data]
    ELSE [ok |-> FALSE, data |-> to_data(VectorStore_default)]

CorruptBlob == [format |-> "corrupt", data |-> to_data(VectorStore_default)]

\* VectorStore::load from the config directory cd: the binary store if the
\* file exists, else the textual store if that exists, else a default
\* store; a blob that does not deserialize is an Err (`?`)
VectorStore_load(cd, store_name) ==
    LET bin_path == store_path_bin(store_name)
        json_path == store_path(store_name)
    IN IF bin_path \in DOMAIN cd
       THEN LET sd == bincode_deserialize(cd[bin_path]) IN
            IF ~sd.ok THEN [ok |-> FALSE, store |-> VectorStore_default]
            ELSE load(sd.data, <<>>)
       ELSE IF json_path \in DOMAIN cd
       THEN LET sd == serde_json_from_str(cd[json_path]) IN
            IF ~sd.ok THEN [ok |-> FALSE, store |-> VectorStore_default]
            ELSE load(sd.data, <<>>)
       ELSE [ok |-> TRUE, store |-> VectorStore_default]

\* VectorStore::save: the config directory after it
save(cd, store_name, store) ==
    MapPut(cd, store_path_bin(store_name), bincode_serialize(to_data(store)))

\* VectorStore::save_json
save_json(cd, store_name, store) ==
    MapPut(cd, store_path(store_name), serde_json_to_string(to_data(store)))

\* a migration that runs whenever the textual store exists
migrate_to_binary_always(cd, store_name) ==
    LET json_path == store_path(store_name)
    IN IF json_path \in DOMAIN cd
       THEN LET sd == serde_json_from_str(cd[json_path]) IN
            IF ~sd.ok THEN [ok |-> FALSE, migrated |-> FALSE, cd |-> cd]
            ELSE [ok |-> TRUE, migrated |-> TRUE,
                  cd |-> save(cd, store_name, from_data(sd.data))]
       ELSE [ok |-> TRUE, migrated |-> FALSE, cd |-> cd]

\* VectorStore::migrate_to_binary: Ok(true) after writing the binary store,
\* Ok(false) when there is nothing to do, Err on a textual store that does
\* not parse
migrate_to_binary(cd, store_name) ==
    LET json_path == store_path(store_name)
        bin_path == store_path_bin(store_name)
    IN IF json_path \in DOMAIN cd /\ bin_path \notin DOMAIN cd
       THEN LET sd == serde_json_from_str(cd[json_path]) IN
            IF ~sd.ok THEN [ok |-> FALSE, migrated |-> FALSE, cd |-> cd]
            ELSE [ok |-> TRUE, migrated |-> TRUE,
                  cd |-> save(cd, store_name, from_data(sd.data))]
       ELSE [ok |-> TRUE, migrated |-> FALSE, cd |-> cd]

\* clean --all: every file whose name ends with ".store.json" is removed
clear_all_indexes(cd) == MapDel(cd, {f \in DOMAIN cd : f[2] = "store.json"})

\* clean --store <name>: <name>.store.json is removed if it exists
clear_specific_index(cd, store_name) == MapDel(cd, {store_path(store_name)})

StoreNames == {"default", "work"}

\* the directories `sgrep index <path>` is run on
IndexedDirs == {[p \in {"a.txt"} |-> <<LShort>>], [p \in {"a.txt"} |-> <<LLong>>]}

FilesInit ==
    /\ config_dir = EmptyMap
    /\ vidx = VectorIndex_new(DEFAULT_DIMENSIONS)
    /\ inserted = <<>>
    /\ procs = <<>>
    /\ IndexIdle
    /\ StoreIdle
    /\ rr = NoRerank

FilesFrame == UNCHANGED <<dir, disk, rr, vidx, inserted, procs>>

\* a command loads the store
Load(store_name) ==
    /\ LET r == VectorStore_load(config_dir, store_name)
       IN /\ mem' = r.store
          /\ last' = [op |-> "load", name |-> store_name, ok |-> r.ok]
    /\ lastOp' = "load"
    /\ UNCHANGED <<config_dir, clock>>
    /\ FilesFrame

\* `sgrep index --fast --store <name> <path>`: load, index, save
IndexStore(store_name, d) ==
    /\ clock < MaxRuns
    /\ LET ld == VectorStore_load(config_dir, store_name)
           r == index(ld.store, d, "Fast", TRUE, 1, {}, clock + 1)
       IN /\ mem' = IF ld.ok THEN r.store ELSE mem
          /\ config_dir' = IF ld.ok /\ r.saved
                           THEN save(config_dir, store_name, r.store)
                           ELSE config_dir
          /\ last' = [op |-> "index", name |-> store_name, ok |-> ld.ok]
    /\ lastOp' = "index"
    /\ clock' = clock + 1
    /\ FilesFrame

\* the loaded store is exported in the textual form
SaveJson(store_name) ==
    /\ lastOp \in {"load", "index"}
    /\ last.ok
    /\ config_dir' = save_json(config_dir, store_name, mem)
    /\ last' = [op |-> "save_json", name |-> store_name, ok |-> TRUE]
    /\ lastOp' = "save_json"
    /\ UNCHANGED <<mem, clock>>
    /\ FilesFrame

MigrateToBinary(store_name) ==
    /\ LET r == migrate_to_binary(config_dir, store_name)
       IN /\ config_dir' = r.cd
          /\ last' = [op |-> "migrate", name |-> store_name, ok |-> r.ok,
                      migrated |-> r.migrated]
    /\ lastOp' = "migrate"
    /\ UNCHANGED <<mem, clock>>
    /\ FilesFrame

CleanAll ==
    /\ config_dir' = clear_all_indexes(config_dir)
    /\ last' = [op |-> "clean", names |-> StoreNames, ok |-> TRUE]
    /\ lastOp' = "clean"
    /\ UNCHANGED <<mem, clock>>
    /\ FilesFrame

CleanStore(store_name) ==
    /\ config_dir' = clear_specific_index(config_dir, store_name)
    /\ last' = [op |-> "clean", names |-> {store_name}, ok |-> TRUE]
    /\ lastOp' = "clean"
    /\ UNCHANGED <<mem, clock>>
    /\ FilesFrame

\* a store file is damaged (a write cut short, a bad sector)
Corrupt(f) ==
    /\ f \in DOMAIN config_dir
    /\ config_dir[f] # CorruptBlob
    /\ config_dir' = MapPut(config_dir, f, CorruptBlob)
    /\ last' = [op |-> "corrupt", name |-> f[1], ok |-> TRUE]
    /\ lastOp' = "corrupt"
    /\ UNCHANGED <<mem, clock>>
    /\ FilesFrame

FilesNext ==
    \/ \E n \in StoreNames : Load(n)
    \/ \E n \in StoreNames, d \in IndexedDirs : IndexStore(n, d)
    \/ \E n \in StoreNames : SaveJson(n)
    \/ \E n \in StoreNames : MigrateToBinary(n)
    \/ CleanAll
    \/ \E n \in StoreNames : CleanStore(n)
    \/ \E n \in StoreNames, k \in {"store.bin", "store.json"} : Corrupt(<<n, k>>)

SpecFiles == FilesInit /\ [][FilesNext]_vars

\* C13: a load that finds the blob it reads corrupt returns a fresh empty
\* store when no other copy of the store exists, and fails when one exists.
C13_CorruptLoadFallsBack ==
    LET n == last.name
        read == IF store_path_bin(n) \in DOMAIN config_dir
                THEN store_path_bin(n) ELSE store_path(n)
        corrupt == read \in DOMAIN config_dir /\ config_dir[read] = CorruptBlob
        backup == (DOMAIN config_dir \cap {store_path_bin(n), store_path(n)})
                      \ {read} # {}
    IN (last.op = "load" /\ corrupt) =>
          IF backup THEN ~last.ok
          ELSE last.ok /\ mem = VectorStore_default

C20_CleanLeavesNothing ==
    last.op = "clean" =>
        \A n \in last.names :
            VectorStore_load(config_dir, n) = [ok |-> TRUE, store |-> VectorStore_default]

(********************* SpecIndex: one VectorIndex ***************************)
MaxAdds == 4        \* add calls on one VectorIndex

\* the dimension and thresholds of the indexes of the unit tests
TestDimensions == 4

Thresholds == {1, 2, 3}

ChunkNames == {"chunk1", "chunk2", "chunk3"}

\* a vector of the index's dimension and one that is too short
TestVectors ==
    {[dim |-> TestDimensions, model |-> None, text |-> <<>>, vec |-> <<0, 0, 0>>],
     [dim |-> TestDimensions - 1, model |-> None, text |-> <<>>, vec |-> <<0, 0, 0>>]}

IndexInit ==
    /\ \E t \in Thresholds :
          vidx = with_threshold(VectorIndex_new(TestDimensions), t)
    /\ config_dir = EmptyMap
    /\ inserted = <<>>
    /\ procs = <<>>
    /\ IndexIdle
    /\ StoreIdle
    /\ rr = NoRerank

IndexFrame == UNCHANGED <<mem, lastOp, dir, disk, clock, rr, config_dir, inserted, procs>>

VIndexAdd(chunk_id, embedding) ==
    /\ vidx.next_id < MaxAdds
    /\ LET r == VectorIndex_add(vidx, chunk_id, embedding)
       IN /\ vidx' = r.vi
          /\ last' = [op |-> "add", ok |-> r.ok]
    /\ IndexFrame

VIndexRemove(chunk_id) ==
    /\ LET r == VectorIndex_remove(vidx, chunk_id)
       IN /\ vidx' = r.vi
          /\ last' = [op |-> "remove", ok |-> r.removed]
    /\ IndexFrame

VIndexClear ==
    /\ vidx' = VectorIndex_clear(vidx)
    /\ last' = [op |-> "clear", ok |-> TRUE]
    /\ IndexFrame

IndexNext ==
    \/ \E c \in ChunkNames, e \in TestVectors : VIndexAdd(c, e)
    \/ \E c \in ChunkNames : VIndexRemove(c)
    \/ VIndexClear

SpecIndex == IndexInit /\ [][IndexNext]_vars

\* C17: an index holding fewer vectors than its threshold has no ANN
\* structure and its search returns nothing; an index to which at least
\* threshold vectors were added has the ANN structure.
C17_ThresholdDecidesAnn ==
    /\ VectorIndex_len(vidx) < vidx.threshold =>
          /\ ~is_indexed(vidx)
          /\ \A hits \in usearch_search(vidx.index, 2) :
                VectorIndex_search(vidx, hits) = <<>>
    /\ vidx.next_id >= vidx.threshold => is_indexed(vidx)

\* C18: after any sequence of add, remove and clear, id_to_chunk and
\* chunk_to_id are mutual inverses.
C18_MapsAreInverse ==
    /\ \A key \in DOMAIN vidx.id_to_chunk :
          /\ vidx.id_to_chunk[key] \in DOMAIN vidx.chunk_to_id
          /\ vidx.chunk_to_id[vidx.id_to_chunk[key]] = key
    /\ \A c \in DOMAIN vidx.chunk_to_id :
          /\ vidx.chunk_to_id[c] \in DOMAIN vidx.id_to_chunk
          /\ vidx.id_to_chunk[vidx.chunk_to_id[c]] = c

(************** SpecAnn: a store around the ANN threshold *******************)
\* the chunk of line i of a.txt
BigChunk(i, e) == FileChunk("a.txt", Chunk(<<LShort>>, 0, 1, i, i), e)

\* a store of n chunks: the first with embedding e1, the others with e2
BigStore(n, e1, e2) ==
    [VectorStore_default EXCEPT
        !.chunks = [k \in {generate_chunk_id("a.txt", i, i) : i \in 1..n} |->
                       BigChunk(k[2], IF k[2] = 1 THEN e1 ELSE e2)]]

\* an iteration order of the chunks of a.txt that starts with chunk `first`
BigOrder(n, first) ==
    [i \in 1..n |->
        LET j == IF i = 1 THEN first ELSE IF i = first THEN 1 ELSE i
        IN generate_chunk_id("a.txt", j, j)]

AnnEmbeddings == {EmptyEmbedding, embed_single("Balanced", <<LShort>>)}

AnnInit ==
    /\ \E e1, e2 \in AnnEmbeddings : mem = BigStore(ann_threshold - 1, e1, e2)
    /\ lastOp = "new"
    /\ IndexIdle
    /\ rr = NoRerank
    /\ OthersIdle

AnnFrame == UNCHANGED <<dir, disk, clock, rr, others>>

\* add_chunk of the chunk that takes the store to the threshold
AnnAddChunk(e) ==
    /\ mem' = add_chunk(mem, BigChunk(ann_threshold, e))
    /\ lastOp' = "add_chunk"
    /\ last' = [op |-> "add_chunk"]
    /\ AnnFrame

\* maybe_build_ann_index, with the chunks iterated from chunk `first` on
AnnMaybeBuild(first) ==
    /\ first \in 1..Cardinality(DOMAIN mem.chunks)
    /\ LET n == Cardinality(DOMAIN mem.chunks)
           r == maybe_build_ann_index(mem, BigOrder(n, first))
       IN /\ mem' = r.store
          /\ last' = [op |-> "maybe_build_ann_index", ok |-> r.ok,
                      due |-> n >= ann_threshold /\ ~mem.ann_index.some]
    /\ lastOp' = "maybe_build_ann_index"
    /\ AnnFrame

AnnNext ==
    \/ \E e \in StoreEmbeddings(<<LShort>>) : AnnAddChunk(e)
    \/ \E first \in {1, 2, ann_threshold} : AnnMaybeBuild(first)

SpecAnn == AnnInit /\ [][AnnNext]_vars

\* C14: when maybe_build_ann_index runs on a store with at least
\* ann_threshold chunks and no index, it succeeds, the index holds every
\* chunk with a non-empty embedding, has_ann_index() is true and ann_search
\* returns candidates.
C14_BuildAtThreshold ==
    (last.op = "maybe_build_ann_index" /\ last.due) =>
        /\ last.ok
        /\ mem.ann_index.some
        /\ AnnIds(mem) = EmbeddedIds(mem)
        /\ has_ann_index(mem)
        /\ ann_search(mem, <<>>).some

(****************** rerank (reranker.rs, search.rs) *************************)
\* str::contains on whitespace-free terms: the term lies inside one token
IsSubstring(t, w) ==
    \E i \in 0..(Len(w) - Len(t)) : SubSeq(w, i + 1, i + Len(t)) = t

contains(content, term) ==
    \E w \in Range(Tokens(content)) : IsSubstring(term, to_lowercase(w))

\* results.into_iter().take(n)
Take(s, n) == SubSeq(s, 1, Min2(n, Len(s)))

\* the stable sort_by(|a, b| b.score.partial_cmp(&a.score)): descending score,
\* equal scores keep their order
RECURSIVE sort_by_score(_)
sort_by_score(s) ==
    IF s = <<>> THEN <<>>
    ELSE LET x == s[Len(s)]
             front == sort_by_score(SubSeq(s, 1, Len(s) - 1))
             ahead == SelectSeq(front, LAMBDA r : r.score >= x.score)
             behind == SelectSeq(front, LAMBDA r : r.score < x.score)
         IN ahead \o <<x>> \o behind

\* simple_rerank: +0.05 per distinct lowercased query term the lowercased
\* content contains, then the sort; a query is the sequence of its words
simple_rerank(query, results) ==
    LET query_terms == {to_lowercase(t) : t \in Range(query)}
        keyword_boost(r) ==
            5 * Cardinality({t \in query_terms : contains(r.chunk.content, t)})
    IN sort_by_score([i \in DOMAIN results |->
           [results[i] EXCEPT !.score = @ + keyword_boost(results[i])]])

\* the tail of rerank_jina / rerank_cohere on a parsed response: the results
\* the response indexes, with the response's scores, sorted
reranked(results, response) ==
    LET hits == SelectSeq(response, LAMBDA r : r.index < Len(results))
    IN sort_by_score([i \in DOMAIN hits |->
           [results[hits[i].index + 1] EXCEPT !.score = hits[i].relevance_score]])

RrOk(v) == [ok |-> TRUE, value |-> v]
RrErr == [ok |-> FALSE]

\* Reranker::rerank -> Result<Vec<SearchResult>>; jina and cohere are the
\* outcomes of the two remote calls, cohere_key whether COHERE_API_KEY is set
rerank(query, results, top_n, jina, cohere_key, cohere) ==
    IF results = <<>> THEN RrOk(results)
    ELSE IF jina.ok THEN RrOk(reranked(results, jina.value))
    ELSE IF cohere_key /\ cohere.ok THEN RrOk(reranked(results, cohere.value))
    ELSE RrOk(Take(results, top_n))

\* the rerank block of commands/search.rs run
rerank_block(pattern, results, do_rerank, max_count, jina, cohere_key, cohere) ==
    IF do_rerank /\ Len(results) > 1
    THEN LET r == rerank(pattern, results, max_count, jina, cohere_key, cohere)
         IN IF r.ok THEN r.value
            ELSE Take(simple_rerank(pattern, results), max_count)
    ELSE Take(results, max_count)

(****************** HybridSearcher (core/search.rs) *************************)
bm25_weight == 30       \* 0.3
vector_weight == 70     \* 0.7
k1 == 120               \* 1.2
b == 75                 \* 0.75

\* the largest r in lo..hi with r * r <= n
RECURSIVE isqrt_loop(_, _, _)
isqrt_loop(n, lo, hi) ==
    IF lo >= hi THEN lo
    ELSE LET mid == (lo + hi + 1) \div 2 IN
         IF mid * mid <= n THEN isqrt_loop(n, mid, hi)
         ELSE isqrt_loop(n, lo, mid - 1)

\* f32::sqrt, rounded down to an integer
sqrt(n) == isqrt_loop(n, 0, n)

\* cosine_similarity (embeddings.rs), in hundredths: 0 for vectors of
\* different or zero length or of norm 0, else dot / (norm_a * norm_b)
cosine_similarity(x, y) ==
    IF x.dim # y.dim \/ x.dim = 0 THEN 0
    ELSE LET dot == SumSeq([i \in DOMAIN x.vec |-> x.vec[i] * y.vec[i]])
             sq_a == SumSeq([i \in DOMAIN x.vec |-> x.vec[i] * x.vec[i]])
             sq_b == SumSeq([i \in DOMAIN y.vec |-> y.vec[i] * y.vec[i]])
         IN IF sq_a = 0 \/ sq_b = 0 THEN 0
            ELSE (10000 * dot) \div sqrt(10000 * sq_a * sq_b)

\* 100 * ln(1 + num / den) by the series 2 (z + z^3 / 3 + z^5 / 5) with
\* z = num / (num + 2 den), in hundredths
ln_1p(num, den) ==
    LET z == (100 * num) \div (num + 2 * den)
        z3 == (((z * z) \div 100) * z) \div 100
        z5 == (((z3 * z) \div 100) * z) \div 100
    IN 2 * (z + z3 \div 3 + z5 \div 5)

\* HybridSearcher::compute_bm25; query_terms is the Vec of the query's terms
RECURSIVE compute_bm25(_, _, _, _)
compute_bm25(content, query_terms, bm25_idf, avg_doc_len) ==
    IF query_terms = <<>> THEN 0
    ELSE LET term == Head(query_terms)
             doc_len == 100 * JoinLen(content)
             words == Tokens(content)
             tf == Cardinality({i \in DOMAIN words : to_lowercase(words[i]) = term})
             term_idf == IF term \in DOMAIN bm25_idf
                         THEN ln_1p(bm25_idf[term].num, bm25_idf[term].den) ELSE 0
             numerator == tf * (k1 + 100)
             denominator ==
                 100 * tf + (k1 * ((100 - b) + (b * ((100 * doc_len) \div avg_doc_len)) \div 100)) \div 100
         IN (IF tf > 0 THEN (term_idf * numerator) \div denominator ELSE 0)
            + compute_bm25(content, Tail(query_terms), bm25_idf, avg_doc_len)

\* HybridSearcher::normalize_bm25: the sigmoid 1 / (1 + exp(-0.1 score)) of a
\* score >= 0, by the rising curve 1/2 + x / (2 (x + 2)) with x = 0.1 score
\* (0.5 at 0, towards 1)
normalize_bm25(score) == 50 + (50 * score) \div (score + 2000)

\* Path::extension of the paths of the model, as an Option of characters
extension(file_path) ==
    CASE file_path \in {"a.txt", "b.txt"} -> [some |-> TRUE, ext |-> <<"t", "x", "t">>]
      [] file_path = "c.RS" -> [some |-> TRUE, ext |-> <<"R", "S">>]
      [] OTHER -> [some |-> FALSE, ext |-> <<>>]

NoTypes == [some |-> FALSE, types |-> {}]
SomeTypes(types) == [some |-> TRUE, types |-> types]

\* the filter closure of search: file_types is an Option of a list of types
type_filter(c, file_types) ==
    IF file_types.some
    THEN LET file_ext == extension(c.file_path) IN
         IF file_ext.some
         THEN \E t \in file_types.types : to_lowercase(t) = to_lowercase(file_ext.ext)
         ELSE FALSE
    ELSE TRUE

\* the average content length search computes: the lengths of
\* store.chunks.values() summed and divided by doc_count
avg_doc_len(store, order) ==
    IF store.doc_count > 0
    THEN (100 * SumSeq([i \in DOMAIN order |-> JoinLen(store.chunks[order[i]].content)]))
             \div store.doc_count
    ELSE 50000

\* the map closure of search without ColBERT: the SearchResult of chunk c
search_result(store, query_embedding, query_terms, avg_len, c) ==
    LET vector_score == cosine_similarity(query_embedding, c.embedding)
        bm25_score == compute_bm25(c.content, query_terms, store.bm25_idf, avg_len)
    IN [chunk |-> c,
        score |-> (vector_weight * vector_score
                   + bm25_weight * normalize_bm25(bm25_score)) \div 100,
        bm25_score |-> bm25_score, vector_score |-> vector_score]

\* str::to_lowercase().split_whitespace() of the query, a sequence of words
query_terms_of(query_text) == [i \in DOMAIN query_text |-> to_lowercase(query_text[i])]

\* a search that returns every scored chunk in the order it was scored
HybridSearcher_search_unsorted(store, query_embedding, query_text, limit, file_types, order, hits) ==
    LET ann_candidates == ann_search(store, hits)
        known == SelectSeq(ann_candidates.candidates,
                           LAMBDA chunk_id : chunk_id \in DOMAIN store.chunks)
        chunks_iter == IF ann_candidates.some
                       THEN [i \in DOMAIN known |-> store.chunks[known[i]]]
                       ELSE [i \in DOMAIN order |-> store.chunks[order[i]]]
        filtered == SelectSeq(chunks_iter, LAMBDA c : type_filter(c, file_types))
    IN [i \in DOMAIN filtered |->
           search_result(store, query_embedding, query_terms_of(query_text),
                         avg_doc_len(store, order), filtered[i])]

\* HybridSearcher::search without ColBERT. `order` is the order in which
\* store.chunks.values() yields the chunks, `hits` the keys usearch returns
\* for limit * 3
HybridSearcher_search(store, query_embedding, query_text, limit, file_types, order, hits) ==
    LET ann_candidates == ann_search(store, hits)
        known == SelectSeq(ann_candidates.candidates,
                           LAMBDA chunk_id : chunk_id \in DOMAIN store.chunks)
        chunks_iter == IF ann_candidates.some
                       THEN [i \in DOMAIN known |-> store.chunks[known[i]]]
                       ELSE [i \in DOMAIN order |-> store.chunks[order[i]]]
        filtered == SelectSeq(chunks_iter, LAMBDA c : type_filter(c, file_types))
        results == [i \in DOMAIN filtered |->
                       search_result(store, query_embedding, query_terms_of(query_text),
                                     avg_doc_len(store, order), filtered[i])]
    IN Take(sort_by_score(results), limit)

(********************* SpecSearch: one search *******************************)
SearchPaths == {"a.txt", "b.txt", "c.RS"}

\* a.txt and b.txt hold the same line, c.RS another one
SearchContent(p) == IF p = "c.RS" THEN <<LBoth>> ELSE <<LShort>>

\* the chunk of the one line of file p, without or with an embedding
SearchChunks(p) ==
    {FileChunk(p, Chunk(SearchContent(p), 0, 1, 1, 1), e) :
        e \in {EmptyEmbedding, embed_single("Balanced", SearchContent(p))}}

\* the query as a text of one line
QueryText(query) ==
    <<[len |-> SumSeq([i \in DOMAIN query |-> Len(query[i])]) + Len(query) - 1,
       toks |-> query]>>

SearchQueries == {<<wFoo>>, <<wbar, wfoobar>>}

SearchLimits == {1, 2}

SearchFileTypes ==
    {NoTypes, SomeTypes({<<"T", "X", "T">>}), SomeTypes({<<"r", "s">>, <<"m", "d">>})}

SearchInit ==
    /\ mem = VectorStore_default
    /\ lastOp = "new"
    /\ IndexIdle
    /\ rr = NoRerank
    /\ OthersIdle

SearchFrame == UNCHANGED <<dir, disk, clock, rr, config_dir, vidx, procs>>

\* add_chunk of a chunk whose id the store does not hold yet
SAddChunk(c) ==
    /\ lastOp # "search"
    /\ c.id \notin DOMAIN mem.chunks
    /\ mem' = add_chunk(mem, c)
    /\ inserted' = Append(inserted, c.id)
    /\ lastOp' = "add_chunk"
    /\ last' = [op |-> "add_chunk"]
    /\ SearchFrame

SUpdateBm25Stats ==
    /\ lastOp # "search"
    /\ mem' = update_bm25_stats(mem)
    /\ lastOp' = "update_bm25_stats"
    /\ last' = [op |-> "update_bm25_stats"]
    /\ UNCHANGED inserted
    /\ SearchFrame

SBuildAnnIndex ==
    /\ lastOp # "search"
    /\ ~mem.ann_index.some
    /\ \E order \in Orders(DOMAIN mem.chunks) :
          mem' = build_ann_index(mem, order).store
    /\ lastOp' = "build_ann_index"
    /\ last' = [op |-> "build_ann_index"]
    /\ UNCHANGED inserted
    /\ SearchFrame

\* the search of one `sgrep search` process on the store it loaded
SSearch(query, limit, file_types) ==
    /\ lastOp # "search"
    /\ \E order \in Orders(DOMAIN mem.chunks) :
       \E hits \in IF mem.ann_index.some
                   THEN usearch_search(mem.ann_index.vi.index, limit * 3)
                   ELSE {<<>>} :
          last' = [op |-> "search", query |-> query, limit |-> limit,
                   file_types |-> file_types, order |-> order,
                   ann |-> ann_search(mem, hits),
                   results |-> HybridSearcher_search(mem,
                       embed_single("Balanced", QueryText(query)), query,
                       limit, file_types, order, hits)]
    /\ lastOp' = "search"
    /\ UNCHANGED <<mem, inserted>>
    /\ SearchFrame

SearchNext ==
    \/ \E p \in SearchPaths : \E c \in SearchChunks(p) : SAddChunk(c)
    \/ SUpdateBm25Stats
    \/ SBuildAnnIndex
    \/ \E query \in SearchQueries, limit \in SearchLimits,
          file_types \in SearchFileTypes : SSearch(query, limit, file_types)

SpecSearch == SearchInit /\ [][SearchNext]_vars

\* the ids of the chunks the last search scored: the ANN candidates the
\* store holds, or every chunk, that pass the file-type filter
SearchPool ==
    {id \in (IF last.ann.some THEN Range(last.ann.candidates) ELSE DOMAIN mem.chunks)
            \cap DOMAIN mem.chunks :
        type_filter(mem.chunks[id], last.file_types)}

\* C15: a search returns at most `limit` results, in non-increasing score
\* order, each a chunk of the store that passes the file-type filter, with
\* the score of that chunk; with ANN candidates the results are among the
\* candidates; in both cases they are the highest-scoring chunks of the pool.
C15_SearchTopK ==
    last.op = "search" =>
        LET res == last.results
            ids == {res[i].chunk.id : i \in DOMAIN res}
            scored(id) ==
                search_result(mem, embed_single("Balanced", QueryText(last.query)),
                              query_terms_of(last.query),
                              avg_doc_len(mem, last.order), mem.chunks[id])
        IN /\ Len(res) <= last.limit
           /\ Len(res) = Min2(last.limit, Cardinality(SearchPool))
           /\ Cardinality(ids) = Len(res)
           /\ \A i \in DOMAIN res : i > 1 => res[i - 1].score >= res[i].score
           /\ ids \subseteq SearchPool
           /\ \A i \in DOMAIN res : res[i] = scored(res[i].chunk.id)
           /\ \A id \in SearchPool \ ids :
                 \A i \in DOMAIN res : scored(id).score <= res[i].score
           /\ last.ann.some => ids \subseteq Range(last.ann.candidates)

\* a search without ANN candidates for type txt and limit 1 on a store with
\* two txt chunks and a chunk of another type
C15_Witness ==
    /\ last.op = "search"
    /\ ~last.ann.some
    /\ last.file_types.some
    /\ Cardinality(DOMAIN mem.chunks) = 3
    /\ Cardinality(SearchPool) = 2
    /\ Len(last.results) = 1
    /\ last.results[1].vector_score > 0
    /\ last.results[1].bm25_score > 0

\* the position of a chunk id in the insertion history
InsertedAt(id) == CHOOSE i \in DOMAIN inserted : inserted[i] = id

\* C16: results with equal scores come in the order in which their chunks
\* were inserted, and the result order depends on the store and the query
\* only.
C16_TiesInInsertionOrder ==
    last.op = "search" =>
        LET res == last.results IN
        /\ \A i, j \in DOMAIN res :
              (i < j /\ res[i].score = res[j].score)
                 => InsertedAt(res[i].chunk.id) < InsertedAt(res[j].chunk.id)
        /\ ~last.ann.some =>
              \A order \in Orders(DOMAIN mem.chunks) :
                 HybridSearcher_search(mem,
                     embed_single("Balanced", QueryText(last.query)), last.query,
                     last.limit, last.file_types, order, <<>>) = res

(************* SpecScore: searches over hand-built vectors *****************)
\* the f32 vectors of the chunks and of the queries: three coordinates
ScoreVectors ==
    {[dim |-> 3, model |-> None, text |-> <<>>, vec |-> v] :
        v \in {<<1, 0, 0>>, <<-1, 0, 0>>, <<1, 1, 0>>, <<0, 0, 0>>}}

ScoreChunks(p) ==
    {FileChunk(p, Chunk(SearchContent(p), 0, 1, 1, 1), e) : e \in ScoreVectors}

\* searcher.search with the query vector query_embedding on the store
ScoreSearch(query_embedding, query, limit) ==
    /\ lastOp # "search"
    /\ \E order \in Orders(DOMAIN mem.chunks) :
          last' = [op |-> "search", query |-> query, limit |-> limit,
                   query_embedding |-> query_embedding,
                   results |-> HybridSearcher_search(mem, query_embedding, query,
                                                     limit, NoTypes, order, <<>>)]
    /\ lastOp' = "search"
    /\ UNCHANGED <<mem, inserted>>
    /\ SearchFrame

ScoreNext ==
    \/ \E p \in SearchPaths : \E c \in ScoreChunks(p) : SAddChunk(c)
    \/ SUpdateBm25Stats
    \/ \E query_embedding \in ScoreVectors, query \in SearchQueries,
          limit \in SearchLimits : ScoreSearch(query_embedding, query, limit)

SpecScore == SearchInit /\ [][ScoreNext]_vars

\* C22: with the weights summing to 1 and no late interaction, every score
\* of a result of HybridSearcher::search is in [0, 1].
C22_ScoreInUnitInterval ==
    (last.op = "search" /\ bm25_weight + vector_weight = 100)
        => \A i \in DOMAIN last.results :
              /\ 0 <= last.results[i].score
              /\ last.results[i].score <= 100

(***************** SpecCmd: the `sgrep search` command ***********************)
CmdQueries == {<<wFoo>>, <<wbar>>}

CmdMaxCounts == {1, 2}

chunk_count(store) == Cardinality(DOMAIN store.chunks)

\* search::run up to the search call on the store file `data` and the
\* directory d: the store it loads, whether it returns at the empty check,
\* the store file its sync leaves, and the store handed to searcher.search
search_run(data, d, sync, code, failed, now, order) ==
    LET store == load(data, order).store
        speed_mode == IF code THEN "Code" ELSE "Balanced"
        synced == sync_files(load(data, order).store, d, speed_mode, failed, now)
    IN IF chunk_count(store) = 0
       THEN [early |-> TRUE, disk |-> data, searched |-> store]
       ELSE [early |-> FALSE,
             disk |-> IF sync /\ synced.saved THEN to_data(synced.store) ELSE data,
             searched |-> store]

\* one `sgrep search` process, from the load of the store to the results of
\* searcher.search
SearchRun(sync, code, failed, query, max_count) ==
    /\ clock < MaxRuns
    /\ \E order \in LoadOrders(disk) :
          LET ld == load(disk, order)
              r == search_run(disk, dir, sync, code, failed, clock + 1, order)
          IN IF ~ld.ok
             THEN /\ disk' = disk
                  /\ last' = [op |-> "load_failed"]
             ELSE /\ disk' = r.disk
                  /\ \E iter \in Orders(DOMAIN r.searched.chunks) :
                        last' = [op |-> "search", sync |-> sync, code |-> code,
                                 failed |-> failed, query |-> query,
                                 max_count |-> max_count, early |-> r.early,
                                 results |->
                                    IF r.early THEN <<>>
                                    ELSE HybridSearcher_search(r.searched,
                                            embed_single("Balanced", QueryText(query)),
                                            query, max_count * 3, NoTypes, iter, <<>>)]
    /\ clock' = clock + 1
    /\ UNCHANGED <<mem, lastOp, dir, rr, others>>

CmdNext ==
    \/ \E p \in Paths, c \in FileContents : WriteFile(p, c)
    \/ \E p \in Paths : DeleteFile(p)
    \/ \E speed_mode \in SyncModes :
          \E failed \in Failures(SyncEmbedded(disk, dir)) : Sync(speed_mode, failed)
    \/ \E sync, code \in BOOLEAN, query \in CmdQueries, max_count \in CmdMaxCounts :
          \E failed \in Failures(IF sync THEN SyncEmbedded(disk, dir) ELSE {}) :
             SearchRun(sync, code, failed, query, max_count)

SpecCmd == Init /\ [][CmdNext]_vars

\* C28: a search with sync enabled leaves the store file that sync_files
\* produces from the store file and the directory as they were when the
\* command started, and its results are those of a search of that store:
\* the files the sync adds or changes are searched, also when the store was
\* empty before.
C28_SearchSeesSync ==
    [][(last'.op = "search" /\ last'.sync)
          => LET r == sync_files(load(disk, <<>>).store, dir,
                                 IF last'.code THEN "Code" ELSE "Balanced",
                                 last'.failed, clock')
                 post == IF r.saved THEN r.store ELSE load(disk, <<>>).store
             IN /\ disk' = to_data(post)
                /\ \E iter \in Orders(DOMAIN post.chunks) :
                      last'.results
                        = HybridSearcher_search(post,
                              embed_single("Balanced", QueryText(last'.query)),
                              last'.query, last'.max_count * 3, NoTypes, iter, <<>>)]_vars

(********* SpecTs: the syntax-aware chunker (treesitter_chunker.rs) *********)
ts_max_chunk_size == 1500
ts_min_chunk_size == 50

\* the source files: three lines, each short or long
TsLine(n) == [len |-> n, toks |-> <<>>]

TsSources == [1..3 -> {TsLine(40), TsLine(800)}]

\* the byte at which line i (1-based) of the source starts
line_start(source, i) == JoinLen(SubSeq(source, 1, i - 1)) + (IF i > 1 THEN 1 ELSE 0)

\* the AST nodes that are semantic boundaries, as line ranges <<first, last>>:
\* any two of them are nested or disjoint
TsRanges == {<<i, j>> : i \in 1..3, j \in 1..3} \ {<<2, 1>>, <<3, 1>>, <<3, 2>>}

TsNodeSets ==
    {N \in SUBSET TsRanges :
        \A m, n \in N : \/ m[2] < n[1] \/ n[2] < m[1]
                        \/ (m[1] <= n[1] /\ n[2] <= m[2])
                        \/ (n[1] <= m[1] /\ m[2] <= n[2])}

\* the Chunk that extract_chunks_recursive pushes for a node
TsChunk(source, n) ==
    [content |-> SubSeq(source, n[1], n[2]),
     start_line |-> n[1], end_line |-> n[2],
     start_byte |-> line_start(source, n[1]),
     end_byte |-> line_start(source, n[2]) + source[n[2]].len]

\* extract_chunks_recursive: the chunks of the nodes in pre-order (a node
\* before the nodes inside it, siblings in source order)
RECURSIVE extract_chunks_recursive(_, _)
extract_chunks_recursive(source, nodes) ==
    IF nodes = {} THEN <<>>
    ELSE LET n == CHOOSE n \in nodes :
                     \A m \in nodes : \/ n[1] < m[1]
                                      \/ (n[1] = m[1] /\ n[2] >= m[2])
         IN <<TsChunk(source, n)>> \o extract_chunks_recursive(source, nodes \ {n})

\* the stable chunks.sort_by_key(|c| c.start_byte)
RECURSIVE sort_by_start_byte(_)
sort_by_start_byte(s) ==
    IF s = <<>> THEN <<>>
    ELSE LET x == s[Len(s)]
             front == sort_by_start_byte(SubSeq(s, 1, Len(s) - 1))
             ahead == SelectSeq(front, LAMBDA c : c.start_byte <= x.start_byte)
             behind == SelectSeq(front, LAMBDA c : c.start_byte > x.start_byte)
         IN ahead \o <<x>> \o behind

\* the stable sort_by of deduplicate_chunks: largest byte range first
RECURSIVE sort_by_size(_)
sort_by_size(s) ==
    IF s = <<>> THEN <<>>
    ELSE LET x == s[Len(s)]
             size(c) == c.end_byte - c.start_byte
             front == sort_by_size(SubSeq(s, 1, Len(s) - 1))
             ahead == SelectSeq(front, LAMBDA c : size(c) >= size(x))
             behind == SelectSeq(front, LAMBDA c : size(c) < size(x))
         IN ahead \o <<x>> \o behind

\* the for loop of deduplicate_chunks
RECURSIVE deduplicate_loop(_, _, _)
deduplicate_loop(sorted_chunks, covered_ranges, result) ==
    IF sorted_chunks = <<>> THEN result
    ELSE LET c == Head(sorted_chunks)
             is_covered == \E r \in covered_ranges :
                              c.start_byte >= r[1] /\ c.end_byte <= r[2]
         IN IF ~is_covered
            THEN deduplicate_loop(Tail(sorted_chunks),
                                  covered_ranges \cup {<<c.start_byte, c.end_byte>>},
                                  Append(result, c))
            ELSE deduplicate_loop(Tail(sorted_chunks), covered_ranges, result)

deduplicate_chunks(chunks) ==
    IF chunks = <<>> THEN chunks
    ELSE deduplicate_loop(sort_by_size(chunks), {}, <<>>)

\* the line loop of split_oversized_chunks for one oversized chunk c; i is
\* 0-based as in the code
RECURSIVE split_lines(_, _, _, _, _, _)
split_lines(c, i, current_start, current_content, current_line_start, result) ==
    IF i >= Len(c.content)
    THEN IF JoinLen(current_content) >= ts_min_chunk_size
         THEN Append(result,
                     [content |-> current_content,
                      start_line |-> current_line_start, end_line |-> c.end_line,
                      start_byte |-> c.start_byte + current_start,
                      end_byte |-> c.end_byte])
         ELSE result
    ELSE LET line == c.content[i + 1]
             new_len == JoinLen(current_content) + line.len + 1
         IN IF new_len > ts_max_chunk_size /\ current_content # <<>>
            THEN split_lines(c, i + 1,
                     current_start + JoinLen(current_content) + 1,
                     <<line>>, c.start_line + i,
                     Append(result,
                         [content |-> current_content,
                          start_line |-> current_line_start,
                          end_line |-> c.start_line + i - 1,
                          start_byte |-> c.start_byte + current_start,
                          end_byte |-> c.start_byte + current_start
                                          + JoinLen(current_content)]))
            ELSE split_lines(c, i + 1, current_start,
                             Append(current_content, line), current_line_start, result)

RECURSIVE split_oversized_chunks(_)
split_oversized_chunks(chunks) ==
    IF chunks = <<>> THEN <<>>
    ELSE LET c == Head(chunks) IN
         (IF JoinLen(c.content) <= ts_max_chunk_size
          THEN IF JoinLen(c.content) >= ts_min_chunk_size THEN <<c>> ELSE <<>>
          ELSE split_lines(c, 0, 0, <<>>, c.start_line, <<>>))
         \o split_oversized_chunks(Tail(chunks))

\* TreeSitterChunker::treesitter_chunk on a parsed source
treesitter_chunk(source, nodes) ==
    split_oversized_chunks(
        deduplicate_chunks(
            sort_by_start_byte(extract_chunks_recursive(source, nodes))))

\* a source file and its parse, not chunked yet
TsInit ==
    /\ dir = EmptyMap
    /\ disk = to_data(VectorStore_default)
    /\ last = [op |-> "none"]
    /\ clock = 0
    /\ StoreIdle
    /\ rr = NoRerank
    /\ config_dir = EmptyMap
    /\ vidx = VectorIndex_new(DEFAULT_DIMENSIONS)
    /\ inserted = <<>>
    /\ \E source \in TsSources, nodes \in TsNodeSets :
          procs = [source |-> source, nodes |-> nodes]

TreesitterChunk ==
    /\ last.op = "none"
    /\ last' = [op |-> "treesitter_chunk",
                chunks |-> treesitter_chunk(procs.source, procs.nodes)]
    /\ UNCHANGED <<mem, lastOp, dir, disk, clock, rr, others>>

TsNext == TreesitterChunk

SpecTs == TsInit /\ [][TsNext]_vars

\* C21: the chunks treesitter_chunk returns, after deduplication and the
\* split of oversized chunks, are sorted by start_byte.
C21_SortedByStartByte ==
    last.op = "treesitter_chunk"
        => \A i, j \in DOMAIN last.chunks :
              i < j => last.chunks[i].start_byte <= last.chunks[j].start_byte

(***************** SpecGraph: KnowledgeGraph (graph.rs) *********************)
MaxImports == 4         \* add_import calls in one behaviour

FileIds == {"a.rs", "b.rs", "c.rs", "d.rs"}

Depths == {0, 1, 2}

\* the import statements of the files: (importing file, imported file)
ImportPairs ==
    {<<"a.rs", "b.rs">>, <<"a.rs", "c.rs">>, <<"c.rs", "b.rs">>,
     <<"b.rs", "d.rs">>, <<"d.rs", "a.rs">>}

\* a FileNode as add_file receives it from the indexer: no imports yet
FileNode(id) == [id |-> id, imports |-> <<>>, imported_by |-> <<>>]

\* KnowledgeGraph::add_file: files.insert(file_id, file)
graph_add_file(files, file) == MapPut(files, file.id, file)

\* Vec::push unless the Vec contains the id
push_new(ids, id) == IF id \in Range(ids) THEN ids ELSE Append(ids, id)

\* KnowledgeGraph::add_import: the imports and imported_by lists of the two
\* file nodes that exist (the edge lists, which get_related_files does not
\* read, are left out)
add_import(files, from_file, to_file) ==
    LET f1 == IF from_file \in DOMAIN files
              THEN [files EXCEPT ![from_file].imports = push_new(@, to_file)]
              ELSE files
    IN IF to_file \in DOMAIN f1
       THEN [f1 EXCEPT ![to_file].imported_by = push_new(@, from_file)]
       ELSE f1

\* the ids of ids that are not in visited, each with depth d, in order
unvisited(ids, visited, d) ==
    LET keep == SelectSeq(ids, LAMBDA id : id \notin visited)
    IN [i \in DOMAIN keep |-> <<keep[i], d>>]

\* the while loop of get_related_files: queue.pop() takes the last element
RECURSIVE related_loop(_, _, _, _, _, _)
related_loop(files, file_id, depth, queue, visited, result) ==
    IF queue = <<>> THEN result
    ELSE LET current_id == queue[Len(queue)][1]
             current_depth == queue[Len(queue)][2]
             rest == SubSeq(queue, 1, Len(queue) - 1)
         IN IF current_depth > depth \/ current_id \in visited
            THEN related_loop(files, file_id, depth, rest, visited, result)
            ELSE LET visited1 == visited \cup {current_id} IN
                 IF current_id \in DOMAIN files
                 THEN LET file == files[current_id]
                          result1 == IF current_id # file_id
                                     THEN Append(result, current_id) ELSE result
                          queue1 == IF current_depth < depth
                                    THEN rest
                                         \o unvisited(file.imports, visited1,
                                                      current_depth + 1)
                                         \o unvisited(file.imported_by, visited1,
                                                      current_depth + 1)
                                    ELSE rest
                      IN related_loop(files, file_id, depth, queue1, visited1, result1)
                 ELSE related_loop(files, file_id, depth, rest, visited1, result)

\* KnowledgeGraph::get_related_files: the ids of the returned nodes, in order
get_related_files(files, file_id, depth) ==
    related_loop(files, file_id, depth, <<<<file_id, 0>>>>, {}, <<>>)

\* KnowledgeGraph::new
GraphInit ==
    /\ dir = EmptyMap
    /\ disk = to_data(VectorStore_default)
    /\ last = [op |-> "none"]
    /\ clock = 0
    /\ StoreIdle
    /\ rr = NoRerank
    /\ config_dir = EmptyMap
    /\ vidx = VectorIndex_new(DEFAULT_DIMENSIONS)
    /\ inserted = <<>>
    /\ procs = [files |-> EmptyMap, imports |-> 0]

GraphFrame ==
    UNCHANGED <<mem, lastOp, dir, disk, clock, rr, config_dir, vidx, inserted>>

GAddFile(id) ==
    /\ id \notin DOMAIN procs.files
    /\ procs' = [procs EXCEPT !.files = graph_add_file(@, FileNode(id))]
    /\ last' = [op |-> "add_file"]
    /\ GraphFrame

GAddImport(from_file, to_file) ==
    /\ procs.imports < MaxImports
    /\ procs' = [procs EXCEPT !.files = add_import(@, from_file, to_file),
                              !.imports = @ + 1]
    /\ last' = [op |-> "add_import"]
    /\ GraphFrame

GRelated(file_id, depth) ==
    /\ last' = [op |-> "get_related_files", file_id |-> file_id, depth |-> depth,
                result |-> get_related_files(procs.files, file_id, depth)]
    /\ UNCHANGED procs
    /\ GraphFrame

GraphNext ==
    \/ \E id \in FileIds : GAddFile(id)
    \/ \E pair \in ImportPairs : GAddImport(pair[1], pair[2])
    \/ \E file_id \in FileIds, depth \in Depths : GRelated(file_id, depth)

SpecGraph == GraphInit /\ [][GraphNext]_vars

\* the ids reached from file_id over at most n imports / imported_by links
\* of file nodes
RECURSIVE Within(_, _, _)
Within(files, file_id, n) ==
    IF n = 0 THEN {file_id}
    ELSE LET near == Within(files, file_id, n - 1)
         IN near \cup UNION {Range(files[u].imports) \cup Range(files[u].imported_by) :
                                u \in near \cap DOMAIN files}

\* C30: get_related_files(file, depth) returns the file nodes other than the
\* start file that are at most depth links away from it, each once.
C30_RelatedWithinDepth ==
    last.op = "get_related_files"
        => /\ Range(last.result)
                = (Within(procs.files, last.file_id, last.depth) \ {last.file_id})
                     \cap DOMAIN procs.files
           /\ \A i, j \in DOMAIN last.result :
                 i # j => last.result[i] # last.result[j]

(************* SpecLazy: LazyIndexer::ensure_indexed ************************)
MaxCallers == 2         \* concurrent callers of ensure_indexed

Callers == 1..MaxCallers

\* the canonical paths the callers pass: the indexed directory and an empty one
LazyPaths == {"/w", "/v"}

dir_of(path) == IF path = "/w" THEN dir ELSE EmptyMap

file_count(store) == Cardinality(DOMAIN store.files)

IdleCaller == [pc |-> "idle", path_key |-> None, result |-> None]

\* LazyIndexer::new shared by the callers; a.txt is in the directory /w
LazyInit ==
    /\ dir = MapPut(EmptyMap, "a.txt", <<LShort>>)
    /\ disk = to_data(VectorStore_default)
    /\ last = [op |-> "none"]
    /\ clock = 0
    /\ StoreIdle
    /\ rr = NoRerank
    /\ config_dir = EmptyMap
    /\ vidx = VectorIndex_new(DEFAULT_DIMENSIONS)
    /\ inserted = <<>>
    /\ procs = [indexed_paths |-> {},
                runs |-> [p \in LazyPaths |-> 0],
                callers |-> [c \in Callers |-> IdleCaller]]

LazyFrame ==
    UNCHANGED <<mem, lastOp, dir, last, rr, config_dir, vidx, inserted>>

\* caller c enters ensure_indexed(path): canonicalize
EnsureCall(c, path) ==
    /\ procs.callers[c].pc = "idle"
    /\ procs' = [procs EXCEPT !.callers[c] =
                    [pc |-> "check", path_key |-> path, result |-> None]]
    /\ UNCHANGED <<disk, clock>>
    /\ LazyFrame

\* the first block under the lock: contains_key(&path_key)
EnsureCheck(c) ==
    /\ procs.callers[c].pc = "check"
    /\ procs' = IF procs.callers[c].path_key \in procs.indexed_paths
                THEN [procs EXCEPT !.callers[c].pc = "returned",
                                   !.callers[c].result = FALSE]
                ELSE [procs EXCEPT !.callers[c].pc = "load"]
    /\ UNCHANGED <<disk, clock>>
    /\ LazyFrame

\* VectorStore::load and the file_count check, which marks the path
EnsureLoad(c) ==
    /\ procs.callers[c].pc = "load"
    /\ procs' = IF file_count(load(disk, <<>>).store) > 0
                THEN [procs EXCEPT !.indexed_paths = @ \cup {procs.callers[c].path_key},
                                   !.callers[c].pc = "returned",
                                   !.callers[c].result = FALSE]
                ELSE [procs EXCEPT !.callers[c].pc = "index"]
    /\ UNCHANGED <<disk, clock>>
    /\ LazyFrame

\* indexer.index(path, store_name): a Fast incremental run, from its load to
\* its save
EnsureIndex(c) ==
    /\ procs.callers[c].pc = "index"
    /\ LET path == procs.callers[c].path_key
           r == index(load(disk, <<>>).store, dir_of(path), "Fast", TRUE, 2, {},
                      clock + 1)
       IN /\ disk' = IF r.saved THEN to_data(r.store) ELSE disk
          /\ procs' = [procs EXCEPT !.runs[path] = @ + 1,
                                    !.callers[c].pc = "mark"]
    /\ clock' = clock + 1
    /\ LazyFrame

\* the last block under the lock: insert(path_key, true), Ok(true)
EnsureMark(c) ==
    /\ procs.callers[c].pc = "mark"
    /\ procs' = [procs EXCEPT !.indexed_paths = @ \cup {procs.callers[c].path_key},
                              !.callers[c].pc = "returned",
                              !.callers[c].result = TRUE]
    /\ UNCHANGED <<disk, clock>>
    /\ LazyFrame

LazyNext ==
    \/ \E c \in Callers, path \in LazyPaths : EnsureCall(c, path)
    \/ \E c \in Callers : EnsureCheck(c)
    \/ \E c \in Callers : EnsureLoad(c)
    \/ \E c \in Callers : EnsureIndex(c)
    \/ \E c \in Callers : EnsureMark(c)

SpecLazy == LazyInit /\ [][LazyNext]_vars

\* C26: whatever the interleaving of the callers of ensure_indexed, at most
\* one indexing run is started for a path.
C26_OneRunPerPath ==
    \A path \in LazyPaths : procs.runs[path] <= 1

(***************** SpecDaemon: the background daemon ************************)
MaxQueue == 2           \* events waiting in the channel

max_batch_size == 100

\* the paths the watcher reports: a file of the watched directory and a file
\* of a hidden directory in it
VisiblePath == <<"/", "w", "/", "a", ".", "t", "x", "t">>
HiddenPath == <<"/", "w", "/", ".", "g", "/", "x">>
EventPaths == {VisiblePath, HiddenPath}

\* path_str.contains("/.") || path_str.contains("\\.")
is_hidden(path) ==
    IsSubstring(<<"/", ".">>, path) \/ IsSubstring(<<"\\", ".">>, path)

\* ChangeAccumulator. An Instant is kept as its age: "now" when it was taken
\* less than the delay ago, "due" when the delay it is compared with
\* (debounce_delay for last_change, max_delay for first_change) has passed.
ChangeAccumulator_new ==
    [changed_paths |-> {}, first_change |-> None, last_change |-> None]

ChangeAccumulator_add(acc, path) ==
    [changed_paths |-> acc.changed_paths \cup {path},
     first_change |-> IF acc.first_change = None THEN "now" ELSE acc.first_change,
     last_change |-> "now"]

should_flush(acc) ==
    IF Cardinality(acc.changed_paths) >= max_batch_size THEN TRUE
    ELSE IF acc.first_change = "due" THEN TRUE
    ELSE IF acc.last_change = "due" THEN TRUE
    ELSE FALSE

ChangeAccumulator_take(acc) == ChangeAccumulator_new

is_empty(acc) == acc.changed_paths = {}

\* Daemon::do_index on the store file: an incremental Balanced run
do_index(data, d, now) ==
    LET r == index(load(data, <<>>).store, d, "Balanced", TRUE, 2, {}, now)
    IN IF r.saved THEN to_data(r.store) ELSE data

\* spawn_daemon has returned: the thread exists and has not begun run(), the
\* caller holds the DaemonHandle
DaemonInit ==
    /\ dir = MapPut(EmptyMap, "a.txt", <<LShort>>)
    /\ disk = to_data(VectorStore_default)
    /\ last = [op |-> "none"]
    /\ clock = 0
    /\ StoreIdle
    /\ rr = NoRerank
    /\ config_dir = EmptyMap
    /\ vidx = VectorIndex_new(DEFAULT_DIMENSIONS)
    /\ inserted = <<>>
    /\ procs = [running |-> FALSE, pc |-> "spawned", handle |-> "held",
                rx |-> <<>>, accumulator |-> ChangeAccumulator_new,
                owed |-> FALSE]

DaemonFrame == UNCHANGED <<mem, lastOp, last, clock, rr, config_dir, vidx, inserted>>

\* run() begins: running.store(true), then canonicalize (ok or Err)
RunBegin(ok) ==
    /\ procs.pc = "spawned"
    /\ procs' = [procs EXCEPT !.running = TRUE,
                              !.pc = IF ok THEN "initial" ELSE "exited"]
    /\ UNCHANGED <<dir, disk>>
    /\ DaemonFrame

\* the initial do_index (an Err ends run), then the watcher is set up
InitialIndex(ok) ==
    /\ procs.pc = "initial"
    /\ procs' = [procs EXCEPT !.pc = IF ok THEN "while" ELSE "exited"]
    /\ disk' = IF ok THEN do_index(disk, dir, clock + 1) ELSE disk
    /\ UNCHANGED dir
    /\ DaemonFrame

\* while running.load(SeqCst)
WhileCheck ==
    /\ procs.pc = "while"
    /\ procs' = [procs EXCEPT !.pc = IF procs.running THEN "select" ELSE "exited"]
    /\ UNCHANGED <<dir, disk>>
    /\ DaemonFrame

\* select!: rx.recv() yields a path; a hidden path continues the loop, any
\* other path is added to the accumulator
SelectRecv ==
    /\ procs.pc = "select"
    /\ procs.rx # <<>>
    /\ LET path == Head(procs.rx) IN
       procs' = IF is_hidden(path)
                THEN [procs EXCEPT !.rx = Tail(@), !.pc = "while"]
                ELSE [procs EXCEPT !.rx = Tail(@), !.pc = "flush", !.owed = TRUE,
                                   !.accumulator = ChangeAccumulator_add(@, path)]
    /\ UNCHANGED <<dir, disk>>
    /\ DaemonFrame

\* select!: no path arrives within the 100 ms sleep
SelectSleep ==
    /\ procs.pc = "select"
    /\ procs.rx = <<>>
    /\ procs' = [procs EXCEPT !.pc = "flush"]
    /\ UNCHANGED <<dir, disk>>
    /\ DaemonFrame

\* the flush check: take() the accumulated paths and go on to re-index, or
\* back to the loop head
FlushCheck ==
    /\ procs.pc = "flush"
    /\ procs' = IF ~is_empty(procs.accumulator) /\ should_flush(procs.accumulator)
                THEN [procs EXCEPT !.pc = "reindex", !.owed = FALSE,
                                   !.accumulator = ChangeAccumulator_take(@)]
                ELSE [procs EXCEPT !.pc = "while"]
    /\ UNCHANGED <<dir, disk>>
    /\ DaemonFrame

\* the re-index of the loop: do_index, whose Err is only printed
Reindex(ok) ==
    /\ procs.pc = "reindex"
    /\ procs' = [procs EXCEPT !.pc = "while"]
    /\ disk' = IF ok THEN do_index(disk, dir, clock + 1) ELSE disk
    /\ UNCHANGED dir
    /\ DaemonFrame

\* debounce_delay passes since last_change
DebounceElapses ==
    /\ procs.accumulator.last_change = "now"
    /\ procs' = [procs EXCEPT !.accumulator.last_change = "due"]
    /\ UNCHANGED <<dir, disk>>
    /\ DaemonFrame

\* max_delay passes since first_change
MaxDelayElapses ==
    /\ procs.accumulator.first_change = "now"
    /\ procs' = [procs EXCEPT !.accumulator.first_change = "due"]
    /\ UNCHANGED <<dir, disk>>
    /\ DaemonFrame

\* a file changes under the watched directory and the watcher's callback
\* sends its path into the channel (the watcher exists once the loop runs)
FileEvent(path) ==
    /\ procs.pc \in {"while", "select", "flush", "reindex"}
    /\ Len(procs.rx) < MaxQueue
    /\ procs' = [procs EXCEPT !.rx = Append(@, path)]
    /\ dir' = IF is_hidden(path) THEN dir
              ELSE MapPut(dir, "a.txt",
                          IF dir["a.txt"] = <<LShort>> THEN <<LBoth>> ELSE <<LShort>>)
    /\ UNCHANGED disk
    /\ DaemonFrame

\* DaemonHandle::stop: daemon.stop(), then the join of the thread begins
HandleStop ==
    /\ procs.handle = "held"
    /\ procs' = [procs EXCEPT !.running = FALSE, !.handle = "joining"]
    /\ UNCHANGED <<dir, disk>>
    /\ DaemonFrame

\* handle.join() returns once the thread has ended
Join ==
    /\ procs.handle = "joining"
    /\ procs.pc = "exited"
    /\ procs' = [procs EXCEPT !.handle = "returned"]
    /\ UNCHANGED <<dir, disk>>
    /\ DaemonFrame

\* the steps of the daemon thread
ThreadStep ==
    \/ \E ok \in BOOLEAN : RunBegin(ok)
    \/ \E ok \in BOOLEAN : InitialIndex(ok)
    \/ WhileCheck
    \/ SelectRecv
    \/ SelectSleep
    \/ FlushCheck
    \/ \E ok \in BOOLEAN : Reindex(ok)

DaemonNext ==
    \/ ThreadStep
    \/ DebounceElapses
    \/ MaxDelayElapses
    \/ \E path \in EventPaths : FileEvent(path)
    \/ HandleStop
    \/ Join

SpecDaemon == DaemonInit /\ [][DaemonNext]_vars

\* The thread is scheduled and its awaits complete, time passes, and a join
\* on an ended thread returns; nothing is assumed about the file events.
FairDaemon ==
    /\ SpecDaemon
    /\ WF_vars(ThreadStep)
    /\ WF_vars(DebounceElapses)
    /\ WF_vars(MaxDelayElapses)
    /\ WF_vars(Join)

\* C25: once DaemonHandle::stop has been called, the thread's run ends and
\* stop returns, whatever the thread was doing when stop was called.
C25_StopReturns ==
    (procs.handle = "joining") ~> (procs.handle = "returned" /\ procs.pc = "exited")

\* C27: a path of a non-hidden file that the loop has received is followed by
\* the start of a re-index, unless the daemon is stopped first.
C27_EventReindexed ==
    procs.owed ~> (~procs.owed \/ procs.handle # "held")

(********************** SpecRerank: the rerank block ************************)

\* the hits HybridSearcher::search can return, in its descending score order
Hits ==
    <<[chunk |-> [id |-> generate_chunk_id("a.txt", 1, 1), content |-> <<LLong>>],
       score |-> 50],
      [chunk |-> [id |-> generate_chunk_id("b.txt", 1, 1), content |-> <<LShort>>],
       score |-> 48],
      [chunk |-> [id |-> generate_chunk_id("b.txt", 2, 2), content |-> <<LBoth>>],
       score |-> 48],
      [chunk |-> [id |-> generate_chunk_id("a.txt", 2, 2), content |-> <<LLong>>],
       score |-> 40]>>

\* the non-empty result lists: the hits at the positions of a set, in order
SearchResults ==
    {SelectSeq(Hits, LAMBDA h : h \in keep) : keep \in (SUBSET Range(Hits)) \ {{}}}

Queries == {<<wfoo>>, <<wbar>>, <<wFoo, wfoo>>, <<wFoo, wbar>>}

MaxCounts == {1, 2}

\* the parsed bodies a reranking service answers with
Responses ==
    {<<[index |-> 1, relevance_score |-> 90], [index |-> 0, relevance_score |-> 10]>>,
     <<[index |-> 7, relevance_score |-> 90], [index |-> 0, relevance_score |-> 20]>>}

RemoteOutcomes == {RrErr} \cup {RrOk(r) : r \in Responses}

RerankInit ==
    /\ rr = NoRerank
    /\ IndexIdle
    /\ StoreIdle
    /\ OthersIdle

\* one `sgrep search` from the searcher's results to the printed results
Search(pattern, results, do_rerank, max_count, jina, cohere_key, cohere) ==
    /\ rr = NoRerank
    /\ Len(results) <= max_count * 3
    /\ rr' = [op |-> "search", pattern |-> pattern, results |-> results,
              rerank |-> do_rerank, max_count |-> max_count, jina |-> jina,
              cohere_key |-> cohere_key, cohere |-> cohere,
              out |-> rerank_block(pattern, results, do_rerank, max_count,
                                   jina, cohere_key, cohere)]
    /\ UNCHANGED <<mem, lastOp, dir, disk, last, clock, others>>

RerankNext ==
    \E pattern \in Queries, results \in SearchResults, do_rerank \in BOOLEAN,
       max_count \in MaxCounts, jina \in RemoteOutcomes, cohere_key \in BOOLEAN,
       cohere \in RemoteOutcomes :
          Search(pattern, results, do_rerank, max_count, jina, cohere_key, cohere)

SpecRerank == RerankInit /\ [][RerankNext]_vars

\* the chunk ids of a result list, in order
Order(results) == [i \in DOMAIN results |-> results[i].chunk.id]

\* C7: when a search reranks and both the primary and the secondary reranker
\* fail, the returned order is that of the keyword-overlap re-sort of the
\* input, truncated to max_count.
C7_FallbackIsKeywordResort ==
    (/\ rr.op = "search" /\ rr.rerank
     /\ ~rr.jina.ok /\ rr.cohere_key /\ ~rr.cohere.ok)
        => Order(rr.out) = Order(Take(simple_rerank(rr.pattern, rr.results),
                                      rr.max_count))

====
